---- MODULE Spec2Model ----
(***************************************************************************)
(* A model of dymoprint: the protocol encoder and the chunked USB send of  *)
(* DymoLabelerFunctions, the print entry point DymoLabeler.print, and the  *)
(* Margins render engine.                                                  *)
(*                                                                         *)
(* Python's None is the empty tuple <<>> and a present value v is <<v>>.   *)
(***************************************************************************)
EXTENDS Integers, Sequences, FiniteSets, TLC

VARIABLES
    pc,          \* where the current print call stands
    result,      \* how the last print call ended
    device,      \* DymoLabeler.device: 0 is None, else the id of a detection
    detections,  \* number of detect_device() enumerations made so far
    bitmap,      \* the bitmap handed to the current print call
    fn,          \* the DymoLabelerFunctions object of the current print call
    lines,       \* print_label's list of lines still to print
    last,        \* TRUE while the sub-print under way is print_label's last
    chunk,       \* _send_command's cmd_to_send
    io,          \* history: the USB reads and writes of the current print call
    subs,        \* history: the _raw_print_label calls of the current print call
    detected,    \* history: TRUE iff the current print call ran detect_device()
    disposed,    \* history: TRUE iff the current print call disposed the device
    margins,     \* the MarginsRenderEngine render under way: its inputs and outcome
    enc,         \* a DymoLabelerFunctions object driven function by function
    built,       \* history: the calls made on enc and the bytes each added to _cmd
    leaf,        \* the render of one render engine: its inputs and outcome
    combined,    \* the HorizontallyCombinedRenderEngine render: inputs and outcome
    usb,         \* the detect_device() call: the USB bus it met and its outcome
    tx,          \* the _send_command call under way: its object and its transfers
    gui          \* the GUI: what its last render_label and print_label did

printVars == <<pc, result, device, detections, bitmap, fn, lines, last,
               chunk, io, subs, detected, disposed>>

renderVars == <<margins>>

encoderVars == <<enc, built>>

engineVars == <<leaf, combined>>

detectVars == <<usb>>

sendVars == <<tx>>

guiVars == <<gui>>

vars == <<printVars, renderVars, encoderVars, engineVars, detectVars, sendVars,
         guiVars>>

----------------------------------------------------------------------------
(* Constants of the program *)

ESC == 27
SYN == 22
maxLines == 200
synwait == 64
DEFAULT_TAPE_SIZE_MM == 12

(* Bounds of the model *)

MaxDetections == 2   \* detect_device() enumerations in one run
MaxWidth == 2        \* the narrow bitmaps are 0..MaxWidth wide
MaxEnumLen == 4      \* streams up to this length are tried with every content
MaxExtra == 2        \* the long bitmaps reach MaxExtra past synwait, maxLines, 2*maxLines

----------------------------------------------------------------------------
(* Helpers on sequences *)

\* Python's s[a:b] for 0 <= a, with 0-based bounds clipped to the length
Slice(s, a, b) == SubSeq(s, a + 1, IF b < Len(s) THEN b ELSE Len(s))

\* [x] * n
Repeat(x, n) == [i \in 1..n |-> x]

\* the 1-based index of the first x in s at or after index i, 0 if there is none
RECURSIVE IndexFrom(_, _, _)
IndexFrom(s, i, x) ==
    IF i > Len(s) THEN 0
    ELSE IF s[i] = x THEN i
    ELSE IndexFrom(s, i + 1, x)

\* math.ceil(h / 8)
CeilDiv8(h) == (h + 7) \div 8

----------------------------------------------------------------------------
(* DymoLabelerFunctions: building the command *)

\* DymoLabelerFunctions.__init__
NewFunctions(dev, sw, tape) ==
    [tape_size_mm |-> tape, cmd |-> <<>>, response |-> FALSE,
     bytesPerLine |-> <<>>, dotTab |-> 0,
     devout |-> dev, devin |-> dev, synwait |-> sw]

\* _max_bytes_per_line, rounding to the nearest
max_bytes_per_line_rounded(tape) ==
    (8 * (IF tape = <<>> \/ tape = <<0>> THEN DEFAULT_TAPE_SIZE_MM ELSE tape[1]) + 6) \div 12

\* _max_bytes_per_line: int(8 * tape_size_mm / 12), the default size for None
max_bytes_per_line(tape) ==
    (8 * (IF tape = <<>> \/ tape = <<0>> THEN DEFAULT_TAPE_SIZE_MM ELSE tape[1])) \div 12

reset_command(f) == [f EXCEPT !.cmd = <<>>, !.response = FALSE]

build_command(f, c) == [f EXCEPT !.cmd = @ \o c]

status_request(f) == [build_command(f, <<ESC, 65>>) EXCEPT !.response = TRUE]

\* _tape_color; a ValueError leaves the object as it was
tape_color(f, value) == IF value < 0 THEN f ELSE build_command(f, <<ESC, 67, value>>)

bytes_per_line(f, value) ==
    IF <<value>> = f.bytesPerLine THEN f
    ELSE [build_command(f, <<ESC, 68, value>>) EXCEPT !.bytesPerLine = <<value>>]

line(f, value) == build_command(bytes_per_line(f, Len(value)), <<SYN>> \o value)

\* mutant: _dot_tab leaves the bytes-per-line value in force
dot_tab_keeping_bytes_per_line(f, value) ==
    IF value < 0 \/ value > max_bytes_per_line(f.tape_size_mm) THEN f
    ELSE [build_command(f, <<ESC, 66, value>>) EXCEPT !.dotTab = value]

\* _dot_tab; a ValueError leaves the object as it was
dot_tab(f, value) ==
    IF value < 0 \/ value > max_bytes_per_line(f.tape_size_mm) THEN f
    ELSE [build_command(f, <<ESC, 66, value>>) EXCEPT
             !.dotTab = value, !.bytesPerLine = <<>>]

cut(f) == build_command(f, <<ESC, 69>>)

chain_mark(f) ==
    line(bytes_per_line(dot_tab(f, 0), max_bytes_per_line(f.tape_size_mm)),
         Repeat(153, max_bytes_per_line(f.tape_size_mm)))

\* _skip_lines; a ValueError leaves the object as it was
skip_lines(f, value) ==
    IF value <= 0 THEN f
    ELSE build_command(bytes_per_line(f, 0), Repeat(SYN, value))

init_label(f) == build_command(f, Repeat(0, 8))

\* for line in lines: self._line(line), for the lines lo..hi in their order
\* (split in halves, the first half evaluated before the second is begun,
\* which keeps the evaluation shallow for long labels)
RECURSIVE line_loop(_, _, _, _)
line_loop(f, ls, lo, hi) ==
    IF lo > hi THEN f
    ELSE IF lo = hi THEN line(f, ls[lo])
    ELSE LET mid == (lo + hi) \div 2
             g   == line_loop(f, ls, lo, mid)
         IN  IF Len(g.cmd) >= 0 THEN line_loop(g, ls, mid + 1, hi) ELSE g

\* _get_status up to its call of _send_command
get_status(f) == status_request(f)

\* _raw_print_label up to the call of _send_command inside _get_status
raw_print_label(f, ls) ==
    get_status(status_request(line_loop(tape_color(f, 0), ls, 1, Len(ls))))

----------------------------------------------------------------------------
(* DymoLabelerFunctions._send_command: the chunk of one iteration *)

\* the inner while loop: pos (0-based) after at most sw SYN bytes were found
RECURSIVE ChunkPos(_, _, _, _)

\* mutant: the except branch forgets pos = len(self._cmd)
ChunkPosNoEnd(cmd, sw, synCount, pos) ==
    IF synCount < sw
    THEN LET i == IndexFrom(cmd, pos + 2, SYN)
         IN  IF i = 0 THEN pos
             ELSE ChunkPos(cmd, sw, synCount + 1, pos + (i - (pos + 2)) + 1)
    ELSE pos

ChunkPos(cmd, sw, synCount, pos) ==
    IF synCount < sw
    THEN LET i == IndexFrom(cmd, pos + 2, SYN)
         IN  IF i = 0 THEN Len(cmd)
             ELSE ChunkPos(cmd, sw, synCount + 1, pos + (i - (pos + 2)) + 1)
    ELSE pos

\* <<cmd_to_send, cmd_rest>> of one iteration of the outer while loop
Chunk(cmd, sw) ==
    IF sw = <<>> THEN <<cmd, <<>>>>
    ELSE LET pos == ChunkPos(cmd, sw[1], 0, 0 - 1)
         IN  IF pos < 0
             THEN <<Slice(cmd, 0, Len(cmd) + pos), Slice(cmd, Len(cmd) + pos, Len(cmd))>>
             ELSE <<Slice(cmd, 0, pos), Slice(cmd, pos, Len(cmd))>>

----------------------------------------------------------------------------
(* The bitmaps handed to print, and what PIL's tobytes gives for them *)

ByteChoices == {0, SYN, 255}
Heights == {1, 8, 9}
Modes == {"1", "L"}

Widths ==
    (0..MaxWidth)
    \cup ((synwait - 1)..(synwait + MaxExtra - 1))
    \cup (maxLines..(maxLines + MaxExtra))
    \cup ((2 * maxLines)..(2 * maxLines + MaxExtra))

\* narrow bitmaps of every height and mode, long ones 8 pixels high in mode "1"
Bitmaps ==
    [width : 0..MaxWidth, height : Heights, mode : Modes]
    \cup [width : Widths, height : {8}, mode : {"1"}]

\* len(rotated_bitmap.tobytes()): the rotated image has bitmap.width rows of
\* bitmap.height pixels; mode "1" packs 8 pixels of a row into a byte, mode "L"
\* takes a byte per pixel
TobytesLen(b) ==
    IF b.mode = "1" THEN CeilDiv8(b.height) * b.width ELSE b.height * b.width

\* the byte streams tried for a bitmap: every stream over ByteChoices when it
\* is short, else a blank stream and one that counts up through all byte
\* values (SYN among them)
Streams(b) ==
    LET n == TobytesLen(b)
    IN  IF n <= MaxEnumLen /\ b.mode = "1"
        THEN [1..n -> ByteChoices]
        ELSE {[i \in 1..n |-> 0], [i \in 1..n |-> (i - 1) % 256]}

----------------------------------------------------------------------------
(* DymoLabeler.print *)

\* stream_row_length
StreamRowLength(b) == CeilDiv8(b.height)

\* mutant: the row count is compared with the bitmap's height
RasterRejectedByHeight(b, stream) == Len(stream) \div CeilDiv8(b.height) # b.height

\* the check of the byte count: TRUE when print raises RuntimeError
RasterRejected(b, stream) == Len(stream) \div StreamRowLength(b) # b.width

\* label_rows / label_matrix
LabelMatrix(b, stream) ==
    LET rl == StreamRowLength(b)
        n  == (Len(stream) + rl - 1) \div rl
    IN  [k \in 1..n |-> Slice(stream, (k - 1) * rl, k * rl)]

\* mutant: a sub-print of a split job takes one line less than is deleted
NextSubOneLess(ls) ==
    IF Len(ls) > maxLines + 1
    THEN <<Slice(ls, 0, maxLines - 1), FALSE>>
    ELSE <<ls, TRUE>>

\* print_label's choice of the next sub-print: <<its lines, whether it is the last>>
NextSub(ls) ==
    IF Len(ls) > maxLines + 1
    THEN <<Slice(ls, 0, maxLines), FALSE>>
    ELSE <<ls, TRUE>>

\* one _raw_print_label call up to its first USB transfer
StartSub(f, ls, before) ==
    LET sub == NextSub(ls)
        g   == raw_print_label(f, sub[1])
    IN  /\ last' = sub[2]
        /\ subs' = Append(before, [lines |-> sub[1], stream |-> g.cmd, from |-> Len(io')])
        /\ IF g.synwait = <<>>
           THEN /\ pc' = "chunk_write"
                /\ chunk' = g.cmd
                /\ fn' = [g EXCEPT !.cmd = <<>>]
           ELSE /\ pc' = "status_write"
                /\ chunk' = <<>>
                /\ fn' = g

Idle == pc = "idle"

Raise(err) ==
    /\ pc' = "raised"
    /\ result' = err

\* print with a bitmap whose byte count fails the check
PrintRejected(b, stream) ==
    /\ RasterRejected(b, stream)
    /\ Raise("RuntimeError")
    /\ detected' = FALSE
    /\ subs' = <<>>
    /\ UNCHANGED <<device, detections, fn, lines, last, chunk>>

\* print, no device held, and detect_device() fails
PrintDetectFails(b, stream) ==
    /\ ~RasterRejected(b, stream)
    /\ device = 0
    /\ detections < MaxDetections
    /\ detections' = detections + 1
    /\ detected' = TRUE
    /\ Raise("DymoLabelerDetectError")
    /\ subs' = <<>>
    /\ UNCHANGED <<device, fn, lines, last, chunk>>

\* mutant: print detects the device anew whether or not one is held
PrintStartsFresh(b, stream) ==
    /\ ~RasterRejected(b, stream)
    /\ detections < MaxDetections
    /\ detections' = detections + 1
    /\ device' = detections + 1
    /\ detected' = TRUE
    /\ lines' = LabelMatrix(b, stream)
    /\ result' = "none"
    /\ StartSub(NewFunctions(device', <<synwait>>, <<DEFAULT_TAPE_SIZE_MM>>), lines', <<>>)

\* print up to the first USB transfer of its first sub-print
PrintStarts(b, stream) ==
    /\ ~RasterRejected(b, stream)
    /\ \/ /\ device = 0
          /\ detections < MaxDetections
          /\ detections' = detections + 1
          /\ device' = detections + 1
          /\ detected' = TRUE
       \/ /\ device # 0
          /\ UNCHANGED <<device, detections>>
          /\ detected' = FALSE
    /\ lines' = LabelMatrix(b, stream)
    /\ result' = "none"
    /\ StartSub(NewFunctions(device', <<synwait>>, <<DEFAULT_TAPE_SIZE_MM>>), lines', <<>>)

print ==
    /\ Idle
    /\ \E b \in Bitmaps : \E stream \in Streams(b) :
          /\ bitmap' = b
          /\ io' = <<>>
          /\ disposed' = FALSE
          /\ \/ PrintRejected(b, stream)
             \/ PrintDetectFails(b, stream)
             \/ PrintStarts(b, stream)
    /\ UNCHANGED <<renderVars, encoderVars, engineVars, detectVars, sendVars, guiVars>>

\* DymoLabeler.detect, as the GUI's status timer calls it between prints
Detect ==
    /\ Idle
    /\ detections < MaxDetections
    /\ detections' = detections + 1
    /\ \/ device' = detections + 1
       \/ UNCHANGED device
    /\ UNCHANGED <<pc, result, bitmap, fn, lines, last, chunk, io, subs,
                   detected, disposed>>
    /\ UNCHANGED <<renderVars, encoderVars, engineVars, detectVars, sendVars, guiVars>>

----------------------------------------------------------------------------
(* DymoLabelerFunctions._send_command, one USB transfer at a time *)

Write(ep, data, ok) == [op |-> "write", ep |-> ep, data |-> data, n |-> Len(data), ok |-> ok]
Read(ep, n, ok) == [op |-> "read", ep |-> ep, data |-> <<>>, n |-> n, ok |-> ok]

\* mutant: a failed transfer is tried again
TransferRetried(event) ==
    /\ io' = Append(io, event)
    /\ UNCHANGED <<pc, result, device, detections, bitmap, fn, lines, last, chunk, subs,
                   detected, disposed>>

\* a USBError out of a transfer: print turns it into DymoLabelerPrintError
TransferFails(event) ==
    /\ io' = Append(io, event)
    /\ Raise("DymoLabelerPrintError")
    /\ UNCHANGED <<device, detections, bitmap, fn, lines, last, chunk, subs,
                   detected, disposed>>

\* cmdBin.tofile(self._devout) of the status request
StatusWrite ==
    /\ pc = "status_write"
    /\ \/ /\ io' = Append(io, Write(fn.devout, <<ESC, 65>>, TRUE))
          /\ pc' = "status_read"
          /\ UNCHANGED <<result, device, detections, bitmap, fn, lines, last,
                         chunk, subs, detected, disposed>>
       \/ TransferFails(Write(fn.devout, <<ESC, 65>>, FALSE))
    /\ UNCHANGED <<renderVars, encoderVars, engineVars, detectVars, sendVars, guiVars>>

\* self._devin.read(8), then the chunk is computed and taken off self._cmd
StatusRead ==
    /\ pc = "status_read"
    /\ \/ /\ io' = Append(io, Read(fn.devin, 8, TRUE))
          /\ LET c == Chunk(fn.cmd, fn.synwait)
             IN  /\ chunk' = c[1]
                 /\ fn' = [fn EXCEPT !.cmd = c[2]]
          /\ pc' = "chunk_write"
          /\ UNCHANGED <<result, device, detections, bitmap, lines, last, subs,
                         detected, disposed>>
       \/ TransferFails(Read(fn.devin, 8, FALSE))
    /\ UNCHANGED <<renderVars, encoderVars, engineVars, detectVars, sendVars, guiVars>>

\* cmdBin.tofile(self._devout) of the chunk, then the loop test and what follows
\* the loop
ChunkWrite ==
    /\ pc = "chunk_write"
    /\ \/ /\ io' = Append(io, Write(fn.devout, chunk, TRUE))
          /\ IF Len(fn.cmd) > 0
             THEN /\ pc' = IF fn.synwait = <<>> THEN "chunk_write" ELSE "status_write"
                  /\ UNCHANGED fn
             ELSE /\ pc' = "final_read"
                  /\ fn' = [fn EXCEPT !.cmd = <<>>, !.response = FALSE]
          /\ UNCHANGED <<result, device, detections, bitmap, lines, last, chunk,
                         subs, detected, disposed>>
       \/ TransferFails(Write(fn.devout, chunk, FALSE))
    /\ UNCHANGED <<renderVars, encoderVars, engineVars, detectVars, sendVars, guiVars>>

\* self._devin.read(8) of the final response; then _raw_print_label returns
\* and print_label goes on to its next sub-print or print disposes the device
FinalRead ==
    /\ pc = "final_read"
    /\ \/ /\ io' = Append(io, Read(fn.devin, 8, TRUE))
          /\ IF last
             THEN /\ disposed' = TRUE
                  /\ pc' = "done"
                  /\ result' = "ok"
                  /\ UNCHANGED <<fn, lines, last, chunk, subs>>
             ELSE /\ lines' = Slice(lines, maxLines, Len(lines))
                  /\ StartSub(fn, lines', subs)
                  /\ UNCHANGED <<result, disposed>>
          /\ UNCHANGED <<device, detections, bitmap, detected>>
       \/ TransferFails(Read(fn.devin, 8, FALSE))
    /\ UNCHANGED <<renderVars, encoderVars, engineVars, detectVars, sendVars, guiVars>>

\* the print call is over: its caller goes on, with or without an exception
Return ==
    /\ pc \in {"done", "raised"}
    /\ pc' = "idle"
    /\ result' = "none"
    /\ bitmap' = [width |-> 0, height |-> 1, mode |-> "1"]
    /\ fn' = NewFunctions(0, <<synwait>>, <<DEFAULT_TAPE_SIZE_MM>>)
    /\ lines' = <<>>
    /\ last' = TRUE
    /\ chunk' = <<>>
    /\ io' = <<>>
    /\ subs' = <<>>
    /\ detected' = FALSE
    /\ disposed' = FALSE
    /\ UNCHANGED <<device, detections>>
    /\ UNCHANGED <<renderVars, encoderVars, engineVars, detectVars, sendVars, guiVars>>

----------------------------------------------------------------------------
(* Python floats: IEEE-754 doubles, computed exactly.                       *)
(* A magnitude is a natural number of units of 2^-64, held as NLimbs limbs  *)
(* of 16 bits, least significant first: limb 5 is the integer part, limbs   *)
(* 1..4 the fraction.  A float is a sign and a magnitude.  Every operation  *)
(* computes the exact result and rounds it to 53 significant bits, ties to  *)
(* even, as the hardware does.                                              *)

Base == 2^16
NLimbs == 5
FracLimbs == 4

\* carry (or borrow) propagation over limbs that may be out of 0..Base-1
RECURSIVE Propagate(_, _, _)
Propagate(x, i, c) ==
    IF i > NLimbs THEN <<>>
    ELSE <<(x[i] + c) % Base>> \o Propagate(x, i + 1, (x[i] + c) \div Base)

AddL(a, b) == Propagate([i \in 1..NLimbs |-> a[i] + b[i]], 1, 0)
SubL(a, b) == Propagate([i \in 1..NLimbs |-> a[i] - b[i]], 1, 0)
MulSmall(a, k) == Propagate([i \in 1..NLimbs |-> a[i] * k], 1, 0)
HalfL(a) ==
    [i \in 1..NLimbs |->
        (a[i] \div 2) + (IF i < NLimbs THEN (a[i + 1] % 2) * (Base \div 2) ELSE 0)]

ZeroL == [i \in 1..NLimbs |-> 0]
LessL(a, b) ==
    \E i \in 1..NLimbs : a[i] < b[i] /\ \A j \in (i + 1)..NLimbs : a[j] = b[j]

\* 2^s in units of 2^-64
Pow2L(s) == [i \in 1..NLimbs |-> IF i = s \div 16 + 1 THEN 2^(s % 16) ELSE 0]

\* number of significant bits of a magnitude
BitLen(a) ==
    IF a = ZeroL THEN 0
    ELSE LET top == CHOOSE i \in 1..NLimbs :
                        a[i] # 0 /\ \A j \in (i + 1)..NLimbs : a[j] = 0
             k   == CHOOSE n \in 1..16 : 2^(n - 1) <= a[top] /\ a[top] < 2^n
         IN  16 * (top - 1) + k

\* the s low bits of a magnitude
LowBits(a, s) ==
    [i \in 1..NLimbs |->
        IF 16 * i <= s THEN a[i]
        ELSE IF 16 * (i - 1) < s THEN a[i] % 2^(s - 16 * (i - 1))
        ELSE 0]

BitAt(a, s) == (a[s \div 16 + 1] \div 2^(s % 16)) % 2

\* round to 53 significant bits, ties to even
Round53(a) ==
    IF BitLen(a) <= 53 THEN a
    ELSE LET s    == BitLen(a) - 53
             r    == LowBits(a, s)
             down == SubL(a, r)
             up   == AddL(down, Pow2L(s))
             half == Pow2L(s - 1)
         IN  IF LessL(r, half) THEN down
             ELSE IF LessL(half, r) THEN up
             ELSE IF BitAt(a, s) = 0 THEN down
             ELSE up

Float(neg, mag) == [neg |-> neg /\ mag # ZeroL, mag |-> mag]

\* float(n) of an int n >= 0
FromInt(n) == Float(FALSE, [i \in 1..NLimbs |-> IF i = NLimbs THEN n ELSE 0])

FNeg(x) == Float(~x.neg, x.mag)

\* x + y
FAdd(x, y) ==
    IF x.neg = y.neg THEN Float(x.neg, Round53(AddL(x.mag, y.mag)))
    ELSE IF LessL(x.mag, y.mag) THEN Float(y.neg, Round53(SubL(y.mag, x.mag)))
    ELSE Float(x.neg, Round53(SubL(x.mag, y.mag)))

\* x - y
FSub(x, y) == FAdd(x, FNeg(y))

\* x * k for an int k >= 0
FMulInt(x, k) == Float(x.neg, Round53(MulSmall(x.mag, k)))

\* x / 2, exact for every float of the model (the lowest limb stays even)
FHalf(x) == Float(x.neg, HalfL(x.mag))

\* x < y, x >= y
FLess(x, y) ==
    IF x.neg /\ ~y.neg THEN TRUE
    ELSE IF ~x.neg /\ y.neg THEN FALSE
    ELSE IF x.neg THEN LessL(y.mag, x.mag)
    ELSE LessL(x.mag, y.mag)
FGeq(x, y) == ~FLess(x, y)

HasFrac(x) == \E i \in 1..FracLimbs : x.mag[i] # 0

\* math.ceil(x)
Ceil(x) ==
    IF x.neg THEN -(x.mag[NLimbs])
    ELSE x.mag[NLimbs] + (IF HasFrac(x) THEN 1 ELSE 0)

\* round(x): to the nearest int, ties to the even one
PyRound(x) ==
    LET n    == x.mag[NLimbs]
        frac == [i \in 1..NLimbs |-> IF i = NLimbs THEN 0 ELSE x.mag[i]]
        half == Pow2L(63)
        m    == IF LessL(frac, half) THEN n
                ELSE IF LessL(half, frac) THEN n + 1
                ELSE IF n % 2 = 0 THEN n
                ELSE n + 1
    IN  IF x.neg THEN -m ELSE m

\* a * 2^k and a \div 2^k on magnitudes
RECURSIVE ShiftLeft(_, _)
ShiftLeft(a, k) == IF k = 0 THEN a ELSE ShiftLeft(AddL(a, a), k - 1)
RECURSIVE ShiftRight(_, _)
ShiftRight(a, k) == IF k = 0 THEN a ELSE ShiftRight(HalfL(a), k - 1)

\* long division of magnitudes: the bits 2^k .. 2^0 of the quotient of r by b,
\* then its 64 fraction bits; <<quotient in units of 2^-64, remainder>>
\* (no limb is negative: the test of q[1] only has q evaluated at each step)
RECURSIVE DivInt(_, _, _, _)
DivInt(r, b, k, q) ==
    IF k < 0 \/ q[1] < 0 THEN <<q, r>>
    ELSE IF LessL(ShiftRight(r, k), b) THEN DivInt(r, b, k - 1, q)
    ELSE DivInt(SubL(r, ShiftLeft(b, k)), b, k - 1, AddL(q, Pow2L(64 + k)))
RECURSIVE DivFrac(_, _, _, _)
DivFrac(r, b, i, q) ==
    IF i < 0 \/ q[1] < 0 THEN <<q, r>>
    ELSE LET r2 == AddL(r, r)
         IN  IF LessL(r2, b) THEN DivFrac(r2, b, i - 1, q)
             ELSE DivFrac(SubL(r2, b), b, i - 1, AddL(q, Pow2L(i)))

\* x / y for y # 0 and a quotient below 2^16: the quotient to 64 fraction
\* bits, a remainder kept as a set lowest bit, rounded to 53 bits
FDiv(x, y) ==
    LET int  == DivInt(x.mag, y.mag, 15, ZeroL)
        frac == DivFrac(int[2], y.mag, 63, int[1])
        q    == frac[1]
        sticky == IF frac[2] # ZeroL /\ q[1] % 2 = 0
                  THEN [q EXCEPT ![1] = @ + 1] ELSE q
    IN  Float(x.neg # y.neg, Round53(sticky))

\* int(x): towards zero
Trunc(x) == IF x.neg THEN -(x.mag[NLimbs]) ELSE x.mag[NLimbs]

----------------------------------------------------------------------------
(* utils.mm_to_px and the labeler's margins *)

\* PIXELS_PER_MM = DPI / MM_PER_INCH = 180 / 25.4, the double
\* 0x1.c58b162c58b17p+2 = 7.086614173228347
PIXELS_PER_MM == Float(FALSE, <<49152, 25285, 22705, 5676, 7>>)

\* mm_to_px(mm) for an int mm >= 0
mm_to_px(mm) == FMulInt(PIXELS_PER_MM, mm)

\* DymoLabeler.get_labeler_margin_px(): mm_to_px(8.1) and mm_to_px(1.9), the
\* doubles 0x1.cb366cd9b366dp+5 = 57.40157480314961 and
\* 0x1.aeddbb76eddbcp+3 = 13.46456692913386
get_labeler_margin_px ==
    <<Float(FALSE, <<0, 27866, 39734, 26317, 57>>),
      Float(FALSE, <<0, 28382, 56247, 30445, 13>>)>>

----------------------------------------------------------------------------
(* MarginsRenderEngine *)

MaxPayloadWidth == 90    \* payload bitmaps are 0..MaxPayloadWidth pixels wide

Justifies == {"left", "center", "right"}
MarginsModes == {"print", "preview"}
\* the margins, minimal and maximal label widths tried, in millimetres: the
\* engine's defaults (0, 0, None) and values the GUI's spin boxes offer
MarginsMM == {0, 3, 8, 12}
MinWidthsMM == {0, 16, 40}
MaxWidthsMM == {30}
PayloadWidths == 0..MaxPayloadWidth \cup {100}
PayloadHeights == {64}

\* MarginsRenderEngine.__init__ with margins in millimetres, as the GUI has them
MillimetreEngines ==
    [mode : MarginsModes,
     justify : Justifies,
     visible_horizontal_margin_px : {mm_to_px(mm) : mm \in MarginsMM},
     labeler_margin_px : {<<FromInt(0), FromInt(0)>>, get_labeler_margin_px},
     max_width_px : {<<>>} \cup {<<mm_to_px(mm)>> : mm \in MaxWidthsMM},
     min_width_px : {mm_to_px(mm) : mm \in MinWidthsMM}]

\* MarginsRenderEngine.__init__ with margins in whole pixels: a visible margin
\* of 10, a labeler margin of (6, 2), and no, a zero or a 110 pixel maximum
PixelEngines ==
    [mode : MarginsModes,
     justify : Justifies,
     visible_horizontal_margin_px : {FromInt(10)},
     labeler_margin_px : {<<FromInt(6), FromInt(2)>>},
     max_width_px : {<<>>, <<FromInt(0)>>, <<FromInt(110)>>},
     min_width_px : {FromInt(0)}]

\* MarginsRenderEngine.__init__, as the callers construct it
MarginsRenderEngines == MillimetreEngines \cup PixelEngines

minimal_label_width_px(e, payload_width_px) ==
    FAdd(FromInt(payload_width_px), FMulInt(e.visible_horizontal_margin_px, 2))

\* mutant: the size error is raised at the maximum too
BitmapTooBigAtMax(e, payload_width_px) ==
    /\ e.max_width_px # <<>>
    /\ FGeq(minimal_label_width_px(e, payload_width_px), e.max_width_px[1])

\* calculate_visible_width raises BitmapTooBigError
BitmapTooBig(e, payload_width_px) ==
    /\ e.max_width_px # <<>>
    /\ FLess(e.max_width_px[1], minimal_label_width_px(e, payload_width_px))

\* mutant: calculate_visible_width without the minimum width
calculate_visible_width_no_min(e, payload_width_px) ==
    minimal_label_width_px(e, payload_width_px)

\* calculate_visible_width where it returns
calculate_visible_width(e, payload_width_px) ==
    LET minimal == minimal_label_width_px(e, payload_width_px)
    IN  IF FLess(minimal, e.min_width_px) THEN e.min_width_px ELSE minimal

\* padding_px = label_width_px - payload_width_px
padding_px(label_width_px, payload_width_px) ==
    FSub(label_width_px, FromInt(payload_width_px))

\* horizontal_offset_px as the assert of render sees it
justified_offset_px(e, padding) ==
    CASE e.justify = "left"   -> e.visible_horizontal_margin_px
      [] e.justify = "center" -> FHalf(padding)
      [] e.justify = "right"  -> FSub(padding, e.visible_horizontal_margin_px)

\* assert horizontal_offset_px >= self.visible_horizontal_margin_px
AssertHolds(e, offset) == FGeq(offset, e.visible_horizontal_margin_px)

\* render raises BitmapTooBigError out of calculate_visible_width
TooBig(e, w, h) ==
    [state |-> "BitmapTooBigError",
     engine |-> e,
     payload |-> [width |-> w, height |-> h]]

\* the assert of render fails
Asserted(e, w, h, label_width_px, offset) ==
    [state |-> "AssertionError",
     engine |-> e,
     payload |-> [width |-> w, height |-> h],
     label_width_px |-> label_width_px,
     asserted_offset_px |-> offset]

\* mutant: print mode leaves the offset where the justify step put it
mode_horizontal_offset_px_unshifted(e, offset) == offset

\* horizontal_offset_px after the step by mode
mode_horizontal_offset_px(e, offset) ==
    IF e.mode = "print" THEN FSub(offset, e.labeler_margin_px[1]) ELSE offset

\* vertical_offset_px
mode_vertical_offset_px(e) ==
    IF e.mode = "print" THEN FromInt(0) ELSE e.labeler_margin_px[2]

\* mutant: preview adds the vertical margin once
mode_bitmap_height_one_margin(e, h) ==
    IF e.mode = "print" THEN FromInt(h)
    ELSE FAdd(FromInt(h), e.labeler_margin_px[2])

\* bitmap_height
mode_bitmap_height(e, h) ==
    IF e.mode = "print" THEN FromInt(h)
    ELSE FAdd(FromInt(h), FMulInt(e.labeler_margin_px[2], 2))

\* what render returns: the bitmap's size, the box the payload is pasted at,
\* and meta
Rendered(e, w, h, label_width_px, offset) ==
    LET horizontal_offset_px == mode_horizontal_offset_px(e, offset)
        vertical_offset_px == mode_vertical_offset_px(e)
        bitmap_height == mode_bitmap_height(e, h)
    IN  [state |-> "returned",
         engine |-> e,
         payload |-> [width |-> w, height |-> h],
         label_width_px |-> label_width_px,
         asserted_offset_px |-> offset,
         bitmap |-> [width |-> Ceil(label_width_px), height |-> Ceil(bitmap_height)],
         box |-> <<PyRound(horizontal_offset_px), PyRound(vertical_offset_px)>>,
         meta |-> [horizontal_offset_px |-> horizontal_offset_px,
                   vertical_offset_px |-> vertical_offset_px]]

NoRender == [state |-> "none"]

\* no call under way
NoCall == [state |-> "none"]

\* MarginsRenderEngine.render once the payload, w x h pixels, is rendered
margins_render(e, w, h) ==
    IF BitmapTooBig(e, w) THEN TooBig(e, w, h)
    ELSE LET label_width_px == calculate_visible_width(e, w)
             offset == justified_offset_px(e, padding_px(label_width_px, w))
         IN  IF AssertHolds(e, offset)
             THEN Rendered(e, w, h, label_width_px, offset)
             ELSE Asserted(e, w, h, label_width_px, offset)

\* MarginsRenderEngine(...).render(context), the payload being w x h pixels
render ==
    /\ margins = NoRender
    /\ \E e \in MarginsRenderEngines, w \in PayloadWidths, h \in PayloadHeights :
        margins' = margins_render(e, w, h)
    /\ UNCHANGED <<printVars, encoderVars, engineVars, detectVars, sendVars, guiVars>>

\* the caller drops the result
RenderDone ==
    /\ margins # NoRender
    /\ margins' = NoRender
    /\ UNCHANGED <<printVars, encoderVars, engineVars, detectVars, sendVars, guiVars>>

----------------------------------------------------------------------------
(* DymoLabelerFunctions driven function by function: every call a caller of *)
(* the class can make on one object, in any order                           *)

MaxCalls == 3      \* calls that add bytes to _cmd in one object's life
MaxLineLen == 1    \* lines and bytes-per-line values are 0..MaxLineLen bytes

DotTabValues == {-1, 0, 1, 9}
TapeColorValues == {-1, 0}
SkipValues == {0, 1, 2}
LineValues == {Repeat(0, k) : k \in 0..MaxLineLen}

\* the call made enc into g: the bytes it added to _cmd go into the history
Called(name, g) ==
    /\ Len(built) < MaxCalls
    /\ enc' = g
    /\ built' = IF g.cmd = enc.cmd THEN built
                ELSE Append(built, [call |-> name,
                                    bytes |-> SubSeq(g.cmd, Len(enc.cmd) + 1, Len(g.cmd))])
    /\ UNCHANGED <<printVars, renderVars, engineVars, detectVars, sendVars, guiVars>>

EncStatusRequest == Called("status_request", status_request(enc))
EncDotTab == \E v \in DotTabValues : Called("dot_tab", dot_tab(enc, v))
EncTapeColor == \E v \in TapeColorValues : Called("tape_color", tape_color(enc, v))
EncBytesPerLine == \E v \in 0..MaxLineLen : Called("bytes_per_line", bytes_per_line(enc, v))
EncCut == Called("cut", cut(enc))
EncLine == \E v \in LineValues : Called("line", line(enc, v))
EncChainMark == Called("chain_mark", chain_mark(enc))
EncSkipLines == \E v \in SkipValues : Called("skip_lines", skip_lines(enc, v))
EncInitLabel == Called("init_label", init_label(enc))

\* _reset_command
EncResetCommand ==
    /\ enc' = reset_command(enc)
    /\ UNCHANGED <<built, printVars, renderVars, engineVars, detectVars, sendVars, guiVars>>

\* _send_command with synwait None: _cmd is emptied, written in one piece,
\* and after a write that went through the response flag is cleared
EncSendCommand ==
    /\ enc.cmd # <<>>
    /\ \E written \in BOOLEAN :
          enc' = IF written THEN reset_command(enc) ELSE [enc EXCEPT !.cmd = <<>>]
    /\ UNCHANGED <<built, printVars, renderVars, engineVars, detectVars, sendVars, guiVars>>

----------------------------------------------------------------------------
(***************************************************************************)
(* The horizontal compositor: HorizontallyCombinedRenderEngine.render and  *)
(* the older DymoRenderEngine.merge_render.  A bitmap is its size, whether *)
(* any pixel of it is set, and the boxes other bitmaps were pasted at.     *)
(***************************************************************************)
PADDING == 4
MaxEngines == 3
MaxBitmapWidth == 2

\* the tape sizes the command line accepts
TapeSizes == {6, 9, 12, 19}

\* DymoLabelerFunctions.height_px
height_px(tape) == max_bytes_per_line(tape) * 8

\* Image.new("1", (w, h)): every pixel 0
NewImage(w, h) == [width |-> w, height |-> h, ink |-> FALSE, parts |-> <<>>]

\* img.paste(b, box=(x, y))
Paste(img, b, x, y) ==
    [img EXCEPT !.ink = @ \/ b.ink,
                !.parts = Append(@, [x |-> x, y |-> y,
                                     width |-> b.width, height |-> b.height])]

\* EmptyRenderEngine(width_px).render(context)
EmptyRenderEngine_render(width_px, context_height_px) ==
    NewImage(width_px, context_height_px)

RECURSIVE SumWidths(_)
SumWidths(bitmaps) ==
    IF bitmaps = <<>> THEN 0
    ELSE Head(bitmaps).width + SumWidths(Tail(bitmaps))

RECURSIVE MaxHeight(_)
MaxHeight(bitmaps) ==
    IF bitmaps = <<>> THEN 0
    ELSE LET m == MaxHeight(Tail(bitmaps))
         IN  IF Head(bitmaps).height > m THEN Head(bitmaps).height ELSE m

\* the width of the merged bitmap of two or more bitmaps, without padding
MergedWidthUnpadded(bitmaps) == SumWidths(bitmaps)

\* the width of the merged bitmap of two or more bitmaps
MergedWidth(bitmaps) == SumWidths(bitmaps) + PADDING * (Len(bitmaps) - 1)

\* the paste loop of render: each bitmap at x_offset, vertically centred
RECURSIVE PasteCentred(_, _, _, _)
PasteCentred(img, bitmaps, x_offset, label_height) ==
    IF bitmaps = <<>> THEN img
    ELSE LET b == Head(bitmaps)
             y_offset == (label_height - b.height) \div 2
         IN  PasteCentred(Paste(img, b, x_offset, y_offset), Tail(bitmaps),
                          x_offset + b.width + PADDING, label_height)

\* the paste loop of merge_render: each bitmap at the top
RECURSIVE PasteTop(_, _, _)
PasteTop(img, bitmaps, offset) ==
    IF bitmaps = <<>> THEN img
    ELSE LET b == Head(bitmaps)
         IN  PasteTop(Paste(img, b, offset, 0), Tail(bitmaps),
                      offset + b.width + PADDING)

\* render_engines or [EmptyRenderEngine()], one column wider
EnginesOrWideEmpty(bitmaps, context_height_px) ==
    IF bitmaps = <<>> THEN <<EmptyRenderEngine_render(2, context_height_px)>>
    ELSE bitmaps

\* render_engines or [EmptyRenderEngine()], each engine rendered
EnginesOrEmpty(bitmaps, context_height_px) ==
    IF bitmaps = <<>> THEN <<EmptyRenderEngine_render(1, context_height_px)>>
    ELSE bitmaps

\* merged_bitmap of render
merged_bitmap(bitmaps) ==
    IF Len(bitmaps) = 1 THEN bitmaps[1]
    ELSE LET label_height == MaxHeight(bitmaps)
         IN  PasteCentred(NewImage(MergedWidth(bitmaps), label_height),
                          bitmaps, 0, label_height)

\* label_bitmap of merge_render
label_bitmap(bitmaps, min_payload_len, context_height_px) ==
    IF Len(bitmaps) > 1
    THEN PasteTop(NewImage(MergedWidth(bitmaps), bitmaps[1].height), bitmaps, 0)
    ELSE IF Len(bitmaps) = 0
    THEN EmptyRenderEngine_render(
             IF min_payload_len > 1 THEN min_payload_len ELSE 1,
             context_height_px)
    ELSE bitmaps[1]

\* max_payload_len_px is not None and the bitmap is wider
ExceedsMax(b, max_payload_len_px) ==
    /\ max_payload_len_px # <<>>
    /\ b.width > max_payload_len_px[1]

\* the offset the merged bitmap is pasted at when the label is widened
expand_offset(justify, min_payload_len_px, width) ==
    LET Max0(n) == IF n > 0 THEN n ELSE 0
    IN  IF justify = "center" THEN Max0((min_payload_len_px - width) \div 2)
        ELSE IF justify = "right" THEN Max0(min_payload_len_px - width)
        ELSE 0

\* the tail of both functions: widen to min_payload_len_px or pass through
expanded_or_merged(merged, min_payload_len_px, justify) ==
    IF min_payload_len_px > merged.width
    THEN Paste(NewImage(min_payload_len_px, merged.height), merged,
               expand_offset(justify, min_payload_len_px, merged.width), 0)
    ELSE merged

\* the bitmaps the engines of a compositor return, and its parameters
EngineBitmaps(context_height_px) ==
    [width : 1..MaxBitmapWidth,
     height : {context_height_px, context_height_px \div 2},
     ink : {TRUE},
     parts : {<<>>}]

BitmapLists(context_height_px) ==
    UNION {[1..n -> EngineBitmaps(context_height_px)] : n \in 0..MaxEngines}

CombinedTapes == {9, 12}
MinPayloadLens == {0, 5, 20}
MaxPayloadLens == {<<>>, <<0>>, <<8>>}

CombinedCall(impl, bitmaps, min, max, justify, context_height_px) ==
    [impl |-> impl, bitmaps |-> bitmaps, min_payload_len_px |-> min,
     max_payload_len_px |-> max, justify |-> justify,
     height_px |-> context_height_px]

\* HorizontallyCombinedRenderEngine(engines, min, max, justify).render(context)
HorizontallyCombinedRender ==
    /\ combined = NoCall
    /\ \E tape \in CombinedTapes, min \in MinPayloadLens,
          max \in MaxPayloadLens, justify \in Justifies :
         \E bs \in BitmapLists(height_px(<<tape>>)) :
            LET h == height_px(<<tape>>)
                merged == merged_bitmap(EnginesOrEmpty(bs, h))
                call == CombinedCall("render", bs, min, max, justify, h)
            IN  combined' =
                  IF ExceedsMax(merged, max)
                  THEN [state |-> "raised", call |-> call,
                        error |-> "BitmapTooBigError"]
                  ELSE [state |-> "returned", call |-> call,
                        out |-> expanded_or_merged(merged, min, justify)]
    /\ UNCHANGED <<printVars, renderVars, encoderVars, leaf, detectVars, sendVars, guiVars>>

\* DymoRenderEngine.merge_render(bitmaps, min, max, justify)
merge_render ==
    /\ combined = NoCall
    /\ \E tape \in CombinedTapes, min \in MinPayloadLens,
          max \in MaxPayloadLens, justify \in Justifies :
         \E bs \in BitmapLists(height_px(<<tape>>)) :
            LET h == height_px(<<tape>>)
                merged == label_bitmap(bs, min, h)
                call == CombinedCall("merge_render", bs, min, max, justify, h)
            IN  combined' =
                  IF ExceedsMax(merged, max)
                  THEN [state |-> "raised", call |-> call, error |-> "die"]
                  ELSE [state |-> "returned", call |-> call,
                        out |-> expanded_or_merged(merged, min, justify)]
    /\ UNCHANGED <<printVars, renderVars, encoderVars, leaf, detectVars, sendVars, guiVars>>

\* the caller takes the outcome
CombinedDone ==
    /\ combined # NoCall
    /\ combined' = NoCall
    /\ UNCHANGED <<printVars, renderVars, encoderVars, leaf, detectVars, sendVars, guiVars>>

(***************************************************************************)
(* The render engines, one render(context) each.  What a font, a barcode   *)
(* or QR generator and a picture file give is drawn from small sets.       *)
(***************************************************************************)
MaxQrVersion == 20

\* the doubles 25.4 = 0x1.9666666666666p+4, 0.4 = 0x1.999999999999ap-2 and
\* 0.9 = 0x1.ccccccccccccdp-1
dpi == Float(FALSE, <<0, 26214, 26214, 26214, 25>>)
TEXT_HEIGHT_SCALE_FACTOR == Float(FALSE, <<26624, 26214, 26214, 26214, 0>>)
font_size_ratio == Float(FALSE, <<26624, 26214, 26214, 58982, 0>>)

\* barcode_writer.mm2px with the writer's dpi: (mm * dpi) / 25.4
mm2px(mm) == FDiv(FMulInt(dpi, mm), dpi)

\* RenderContext(height_px=dymo_labeler.height_px)
Contexts == {[tape_size_mm |-> t, height_px |-> height_px(<<t>>)] : t \in TapeSizes}

LeafReturned(engine, call, w, h) ==
    [state |-> "returned", engine |-> engine, call |-> call,
     out |-> [width |-> w, height |-> h]]
LeafRaised(engine, call, error) ==
    [state |-> "raised", engine |-> engine, call |-> call, error |-> error]

\* TextRenderEngine.render: n lines (a power of two, so that height_px / n
\* and its product with the ratio are exact to halve), the widest line's box
\* being line_width wide at the font size
TextLineCounts == {1, 2}
LineWidths == {0, 9, 40}
text_bitmap(context_height_px, n, line_width) ==
    LET line_height == IF n = 1 THEN FromInt(context_height_px)
                       ELSE FHalf(FromInt(context_height_px))
        scaled == IF n = 1 THEN FMulInt(font_size_ratio, context_height_px)
                  ELSE FHalf(FMulInt(font_size_ratio, context_height_px))
        font_size_px == PyRound(scaled)
        font_offset_px == Trunc(FHalf(FSub(line_height, FromInt(font_size_px))))
    IN  [width |-> line_width + font_offset_px * 2, height |-> context_height_px,
         font_size_px |-> font_size_px]

TextRender ==
    /\ leaf = NoCall
    /\ \E c \in Contexts, n \in TextLineCounts, lw \in LineWidths :
          LET b == text_bitmap(c.height_px, n, lw)
          IN  leaf' = LeafReturned("Text",
                                   [tape_size_mm |-> c.tape_size_mm,
                                    height_px |-> c.height_px,
                                    lines |-> n, line_width |-> lw],
                                   b.width, b.height)
    /\ UNCHANGED <<printVars, renderVars, encoderVars, combined, detectVars, sendVars, guiVars>>

\* BarcodeImageWriter.calculate_size for the options BarcodeRenderEngine sets
\* (vertical_margin 8, module_height height_px - 16, module_width 2) and the
\* generator's quiet zone of 6.5 on either side
calculate_size(modules_per_line, number_of_lines, context_height_px) ==
    [width |-> Trunc(mm2px(13 + modules_per_line * 2)),
     height |-> Trunc(mm2px(8 * 2 + (context_height_px - 16) * number_of_lines))]

\* what the barcode generator does with the content: get() refuses it, the
\* render fails, or it gives one line of so many modules
Generated == {[outcome |-> "get_fails"], [outcome |-> "render_fails"]}
                \cup {[outcome |-> "ok", modules |-> m] : m \in {35, 95}}

barcode_render(call, g, engine) ==
    IF g.outcome = "get_fails" THEN LeafRaised(engine, call, "generator")
    ELSE IF g.outcome = "render_fails"
    THEN LeafRaised(engine, call, "BarcodeRenderError")
    ELSE LET size == calculate_size(g.modules, 1, call.height_px)
         IN  LeafReturned(engine, call, size.width, size.height)

BarcodeRender ==
    /\ leaf = NoCall
    /\ \E c \in Contexts, g \in Generated :
          leaf' = barcode_render(c, g, "Barcode")
    /\ UNCHANGED <<printVars, renderVars, encoderVars, combined, detectVars, sendVars, guiVars>>

\* BarcodeWithTextRenderEngine.render: the barcode's bitmap with the text,
\* rendered int(height_px * 0.4) high, pasted on it
BarcodeWithTextRender ==
    /\ leaf = NoCall
    /\ \E c \in Contexts, g \in Generated, lw \in LineWidths :
          LET text == text_bitmap(Trunc(FMulInt(TEXT_HEIGHT_SCALE_FACTOR, c.height_px)),
                                  1, lw)
              code == barcode_render(c, g, "BarcodeWithText")
          IN  leaf' = IF code.state = "raised" THEN code
                      ELSE [code EXCEPT !.call =
                              [tape_size_mm |-> c.tape_size_mm,
                               height_px |-> c.height_px,
                               text_height |-> text.height]]
    /\ UNCHANGED <<printVars, renderVars, encoderVars, combined, detectVars, sendVars, guiVars>>

\* the rows of code.text(quiet_zone=1) for a QR code of version v
qr_text_lines(v) == 4 * v + 17 + 2

\* QrRenderEngine(content).render(context) without the check of the scale
qr_render_unchecked(call) ==
    LET qr_scale == call.height_px \div call.lines
    IN  IF call.content = 0 THEN LeafRaised("Qr", call, "NoContentError")
        ELSE [state |-> "returned", engine |-> "Qr", call |-> call,
              qr_scale |-> qr_scale,
              out |-> [width |-> call.lines * qr_scale, height |-> call.height_px]]

\* QrRenderEngine(content).render(context); the content is its length, and
\* call.lines the rows the generator gives for it
qr_render(call) ==
    LET qr_scale == call.height_px \div call.lines
    IN  IF call.content = 0 THEN LeafRaised("Qr", call, "NoContentError")
        ELSE IF qr_scale = 0 THEN LeafRaised("Qr", call, "QrTooBigError")
        ELSE [state |-> "returned", engine |-> "Qr", call |-> call,
              qr_scale |-> qr_scale,
              out |-> [width |-> call.lines * qr_scale, height |-> call.height_px]]

QrRender ==
    /\ leaf = NoCall
    /\ \E c \in Contexts :
          \/ leaf' = qr_render([tape_size_mm |-> c.tape_size_mm,
                                height_px |-> c.height_px,
                                content |-> 0, lines |-> 1])
          \/ \E v \in 1..MaxQrVersion :
                leaf' = qr_render([tape_size_mm |-> c.tape_size_mm,
                                   height_px |-> c.height_px,
                                   content |-> v, lines |-> qr_text_lines(v)])
    /\ UNCHANGED <<printVars, renderVars, encoderVars, combined, detectVars, sendVars, guiVars>>

\* the picture path given: none, no such file, or an image of a size
Pictures == {[path |-> "none"], [path |-> "missing"]}
               \cup {[path |-> "file", width |-> w, height |-> h] :
                        w \in {1, 30}, h \in {1, 32, 100}}

\* PictureRenderEngine(picture_path).render(context)
picture_render(call) ==
    IF call.picture.path = "none" THEN LeafRaised("Picture", call, "NoPictureFilePath")
    ELSE IF call.picture.path = "missing"
    THEN LeafRaised("Picture", call, "FileNotFoundError")
    ELSE IF call.picture.height > call.height_px
    THEN LET ratio == FDiv(FromInt(call.height_px), FromInt(call.picture.height))
         IN  LeafReturned("Picture", call,
                          Ceil(FMulInt(ratio, call.picture.width)), call.height_px)
    ELSE LeafReturned("Picture", call, call.picture.width, call.picture.height)

PictureRender ==
    /\ leaf = NoCall
    /\ \E c \in Contexts, p \in Pictures :
          leaf' = picture_render([tape_size_mm |-> c.tape_size_mm,
                                  height_px |-> c.height_px, picture |-> p])
    /\ UNCHANGED <<printVars, renderVars, encoderVars, combined, detectVars, sendVars, guiVars>>

\* TestPatternRenderEngine(width).render(context)
TestPatternWidths == {1, 32, 64, 100}
TestPatternRender ==
    /\ leaf = NoCall
    /\ \E c \in Contexts, width \in TestPatternWidths :
          leaf' = LeafReturned("TestPattern",
                               [tape_size_mm |-> c.tape_size_mm,
                                height_px |-> c.height_px, width |-> width],
                               10 + width + 2 + 40, width)
    /\ UNCHANGED <<printVars, renderVars, encoderVars, combined, detectVars, sendVars, guiVars>>

\* EmptyRenderEngine(width_px).render(context)
EmptyRender ==
    /\ leaf = NoCall
    /\ \E c \in Contexts, width_px \in {1, 5} :
          LET b == EmptyRenderEngine_render(width_px, c.height_px)
          IN  leaf' = LeafReturned("Empty",
                                   [tape_size_mm |-> c.tape_size_mm,
                                    height_px |-> c.height_px, width_px |-> width_px],
                                   b.width, b.height)
    /\ UNCHANGED <<printVars, renderVars, encoderVars, combined, detectVars, sendVars, guiVars>>

\* the caller takes the bitmap or the exception
LeafDone ==
    /\ leaf # NoCall
    /\ leaf' = NoCall
    /\ UNCHANGED <<printVars, renderVars, encoderVars, combined, detectVars, sendVars, guiVars>>

(***************************************************************************)
(* Device detection: detect_device() over the devices the bus enumerates.  *)
(* A device is named by its place in the enumeration, an interface by its  *)
(* place in the active configuration, an endpoint by its place in the      *)
(* interface; 0 is None.                                                   *)
(***************************************************************************)
DEV_VENDOR == 2338
PRINTER_INTERFACE_CLASS == 7
HID_INTERFACE_CLASS == 3
MaxDevices == 2

\* a vendor that is not Dymo, two product ids, and whether the strings of
\* the device can be read
Devices ==
    [idVendor : {DEV_VENDOR, 1133}, idProduct : {4097, 4098},
     readable : BOOLEAN]
Buses == UNION {[1..n -> Devices] : n \in 0..MaxDevices}

\* what get_active_configuration / set_configuration do on the device:
\* a configuration is active, one is set, set_configuration fails with
\* errno 13, with errno 16 (and a configuration is active after all, or
\* none is), or with another errno
Configurations == {"active", "set", "denied", "busy", "busy_unset", "error"}

\* the interface classes of the active configuration, in its order
InterfaceLists ==
    {<<>>, <<7>>, <<3>>, <<8>>, <<3, 7>>, <<7, 3>>, <<8, 3>>, <<3, 8, 7>>}

\* the endpoints of an interface, in its order
EndpointLists ==
    LET e(dir, type) == [dir |-> dir, type |-> type]
    IN  {<<>>, <<e("out", "bulk")>>, <<e("in", "bulk")>>,
         <<e("in", "bulk"), e("out", "bulk")>>,
         <<e("in", "interrupt"), e("out", "interrupt")>>}

\* the kernel driver of the interface: none active, detached, detach fails
KernelDrivers == {"inactive", "detached", "fails"}

\* the places of s whose element satisfies Test, in their order
RECURSIVE Matching(_, _, _)
Matching(s, Test(_), i) ==
    IF i > Len(s) THEN <<>>
    ELSE (IF Test(s[i]) THEN <<i>> ELSE <<>>) \o Matching(s, Test, i + 1)

\* list(usb.core.find(idVendor=DEV_VENDOR, find_all=True))
dymo_devs(bus) ==
    LET IsDymo(dev) == dev.idVendor = DEV_VENDOR
    IN  Matching(bus, IsDymo, 1)

\* dev = dymo_devs[-1]
last_dev(devs) == devs[Len(devs)]

\* dev = dymo_devs[0]
first_dev(devs) == devs[1]

\* usb.util.find_descriptor(..., bInterfaceClass=class): the first or None
find_interface(intfs, class) ==
    LET IsClass(c) == c = class
        found == Matching(intfs, IsClass, 1)
    IN  IF found = <<>> THEN 0 ELSE found[1]

\* the interface opened, the HID one first
select_interface_hid_first(intfs) ==
    IF find_interface(intfs, HID_INTERFACE_CLASS) # 0
    THEN find_interface(intfs, HID_INTERFACE_CLASS)
    ELSE find_interface(intfs, PRINTER_INTERFACE_CLASS)

\* the interface opened: the printer one, else the HID one, else None
select_interface(intfs) ==
    IF find_interface(intfs, PRINTER_INTERFACE_CLASS) # 0
    THEN find_interface(intfs, PRINTER_INTERFACE_CLASS)
    ELSE find_interface(intfs, HID_INTERFACE_CLASS)

\* the first endpoint of the interface, whatever its direction
find_endpoint_any_direction(eps, dir) ==
    IF eps = <<>> THEN 0 ELSE 1

\* usb.util.find_descriptor(intf, custom_match=direction): the first or None
find_endpoint(eps, dir) ==
    LET IsDir(e) == e.dir = dir
        found == Matching(eps, IsDir, 1)
    IN  IF found = <<>> THEN 0 ELSE found[1]

DetectRaised(seen, error) ==
    [state |-> "raised", seen |-> seen, error |-> error]

\* detect_device(); seen is what of the bus and the device it has read
detect_device(bus, cfg, intfs, eps, kd) ==
    LET devs == dymo_devs(bus)
        dev == first_dev(devs)
        intf == select_interface(intfs)
        devout == find_endpoint(eps, "out")
        devin == find_endpoint(eps, "in")
        s1 == [bus |-> bus]
        s2 == [bus |-> bus, cfg |-> cfg]
        s3 == [bus |-> bus, cfg |-> cfg, intfs |-> intfs]
        s4 == [bus |-> bus, cfg |-> cfg, intfs |-> intfs, kd |-> kd]
        s5 == [bus |-> bus, cfg |-> cfg, intfs |-> intfs, kd |-> kd, eps |-> eps]
    IN  IF devs = <<>> THEN DetectRaised(s1, "DeviceDetectionError")
        ELSE IF \E i \in 1..Len(devs) : ~bus[devs[i]].readable
        THEN DetectRaised(s1, "RuntimeError")
        ELSE IF cfg = "denied" THEN DetectRaised(s2, "RuntimeError")
        ELSE IF cfg \in {"error", "busy_unset"} THEN DetectRaised(s2, "USBError")
        ELSE IF intf = 0 THEN DetectRaised(s3, "SystemExit")
        ELSE IF kd = "fails" THEN DetectRaised(s4, "USBError")
        ELSE IF devout = 0 \/ devin = 0 THEN DetectRaised(s5, "SystemExit")
        ELSE [state |-> "returned", seen |-> s5,
              out |-> [id |-> bus[dev].idProduct, dev |-> dev, intf |-> intf,
                       devout |-> devout, devin |-> devin]]

DetectDevice ==
    /\ usb = NoCall
    /\ \E bus \in Buses, cfg \in Configurations, intfs \in InterfaceLists,
          eps \in EndpointLists, kd \in KernelDrivers :
          usb' = detect_device(bus, cfg, intfs, eps, kd)
    /\ UNCHANGED <<printVars, renderVars, encoderVars, engineVars, sendVars, guiVars>>

\* the caller takes the device or the exception
DetectDone ==
    /\ usb # NoCall
    /\ usb' = NoCall
    /\ UNCHANGED <<printVars, renderVars, encoderVars, engineVars, sendVars, guiVars>>

----------------------------------------------------------------------------
(***************************************************************************)
(* DymoLabelerFunctions._send_command with synwait as its constructor      *)
(* takes it: None or a number of SYN bytes.  One step is one pass of the   *)
(* outer while loop, or what follows the loop.                             *)
(***************************************************************************)
MaxSynwait == 3       \* synwait is None or 1..MaxSynwait
MaxRows == 2          \* the command is built from at most MaxRows rows
MaxIterations == 8    \* passes of the while loop followed in one call

Synwaits == {<<>>} \cup {<<k>> : k \in 1..MaxSynwait}

\* lists of rows of one byte each
SendRows == UNION {[1..n -> [1..1 -> ByteChoices]] : n \in 0..MaxRows}

\* how the command of the call was built
SendCallers == {"get_status", "send_command", "skip_lines", "empty"}

\* the object at the call of _send_command
BuiltCommand(how, sw, rows) ==
    LET f == NewFunctions(1, sw, <<DEFAULT_TAPE_SIZE_MM>>)
        g == line_loop(tape_color(f, 0), rows, 1, Len(rows))
    IN  CASE how = "get_status" -> raw_print_label(f, rows)
          [] how = "send_command" -> g
          [] how = "skip_lines" -> skip_lines(g, 2)
          [] OTHER -> f

\* the call of _send_command: nothing is done for an empty command
send_command(f) ==
    [state |-> IF Len(f.cmd) = 0 THEN "returned" ELSE "loop",
     f |-> f, buffer |-> f.cmd, expected |-> f.response,
     io |-> <<>>, passes |-> 0]

\* mutant: the chunk is taken off the command one byte too far
TakeChunkSkipping(cmd, sw) ==
    LET c == Chunk(cmd, sw)
    IN  <<c[1], Slice(c[2], 1, Len(c[2]))>>

\* cmd_to_send and cmd_rest of one pass
TakeChunk(cmd, sw) == Chunk(cmd, sw)

\* one pass of `while len(self._cmd) > 0`; fail is the transfer of the pass
\* that raises USBError (0: none, 1: status write, 2: status read, 3: chunk)
send_pass(t, fail) ==
    LET f == t.f
        c == TakeChunk(f.cmd, f.synwait)
        paced == f.synwait # <<>>
        request == Write(f.devout, <<ESC, 65>>, fail # 1)
        reply == Read(f.devin, 8, fail # 2)
        burst == Write(f.devout, c[1], fail # 3)
    IN  IF paced /\ fail = 1
        THEN [t EXCEPT !.state = "raised", !.io = @ \o <<request>>]
        ELSE IF paced /\ fail = 2
        THEN [t EXCEPT !.state = "raised", !.io = @ \o <<request, reply>>]
        ELSE [t EXCEPT !.state = IF fail = 3 THEN "raised" ELSE "loop",
                       !.f.cmd = c[2],
                       !.io = @ \o (IF paced THEN <<request, reply>> ELSE <<>>)
                                \o <<burst>>,
                       !.passes = @ + 1]

\* mutant: the final response is read whether or not one is expected
send_end_always_reading(t, fail) ==
    [t EXCEPT !.state = IF fail THEN "raised" ELSE "returned",
              !.f.cmd = <<>>, !.f.response = FALSE,
              !.io = Append(@, Read(t.f.devin, 8, ~fail))]

\* after the loop: the final response is read if one is expected
send_end(t, fail) ==
    IF ~t.f.response
    THEN [t EXCEPT !.state = "returned", !.f.cmd = <<>>]
    ELSE [t EXCEPT !.state = IF fail THEN "raised" ELSE "returned",
                   !.f.cmd = <<>>, !.f.response = FALSE,
                   !.io = Append(@, Read(t.f.devin, 8, ~fail))]

SendCommand ==
    /\ tx = NoCall
    /\ \E how \in SendCallers, sw \in Synwaits, rows \in SendRows :
          tx' = send_command(BuiltCommand(how, sw, rows))
    /\ UNCHANGED <<printVars, renderVars, encoderVars, engineVars, detectVars, guiVars>>

SendPass ==
    /\ tx # NoCall
    /\ tx.state = "loop"
    /\ Len(tx.f.cmd) > 0
    /\ tx.passes < MaxIterations
    /\ \E fail \in 0..3 :
          /\ fail \in {1, 2} => tx.f.synwait # <<>>
          /\ tx' = send_pass(tx, fail)
    /\ UNCHANGED <<printVars, renderVars, encoderVars, engineVars, detectVars, guiVars>>

SendEnd ==
    /\ tx # NoCall
    /\ tx.state = "loop"
    /\ Len(tx.f.cmd) = 0
    /\ \E fail \in BOOLEAN :
          /\ fail => tx.f.response
          /\ tx' = send_end(tx, fail)
    /\ UNCHANGED <<printVars, renderVars, encoderVars, engineVars, detectVars, guiVars>>

\* the caller takes the response, None or the USBError
SendDone ==
    /\ tx # NoCall
    /\ tx.state \in {"returned", "raised"}
    /\ tx' = NoCall
    /\ UNCHANGED <<printVars, renderVars, encoderVars, engineVars, detectVars, guiVars>>

----------------------------------------------------------------------------
(***************************************************************************)
(* The GUI: QDymoLabelList.render_label (render_preview, then              *)
(* render_print) and DymoPrintWindow.print_label.  The handlers run one at *)
(* a time, on the GUI thread.                                              *)
(***************************************************************************)
MaxItems == 2      \* the label list has 0..MaxItems item widgets

\* the exceptions derived from RenderEngineException
RenderEngineExceptions ==
    {"BarcodeRenderError", "BitmapTooBigError", "NoContentError",
     "NoPictureFilePath", "QrTooBigError"}

\* what the engine of an item widget does when rendered: a text, a QR code
\* that fits or not, a barcode whose content the generator takes or not, and
\* the EmptyRenderEngine the widget puts in place of an engine it could not
\* construct
ItemRenders(c) ==
    {LeafReturned("Text",
                  [tape_size_mm |-> c.tape_size_mm, height_px |-> c.height_px,
                   lines |-> 1, line_width |-> lw],
                  text_bitmap(c.height_px, 1, lw).width, c.height_px) :
        lw \in {9}}
    \cup {qr_render([tape_size_mm |-> c.tape_size_mm, height_px |-> c.height_px,
                     content |-> v, lines |-> qr_text_lines(v)]) :
             v \in {1, MaxQrVersion}}
    \cup {barcode_render(c, g, "Barcode") :
             g \in {x \in Generated : x.outcome = "ok" => x.modules = 35}}
    \cup {LeafReturned("Empty", c, 1, c.height_px)}

ItemLists(c) == UNION {[1..n -> ItemRenders(c)] : n \in 0..MaxItems}

\* _payload_render_engine rendered: the engines are rendered in their order,
\* the first exception ends it; else the bitmaps are merged
payload_render(items, context_height_px) ==
    LET IsRaised(r) == r.state = "raised"
        raised == Matching(items, IsRaised, 1)
        bitmaps == [i \in 1..Len(items) |->
                       [width |-> items[i].out.width, height |-> items[i].out.height,
                        ink |-> TRUE, parts |-> <<>>]]
    IN  IF raised # <<>>
        THEN [state |-> "raised", error |-> items[raised[1]].error]
        ELSE [state |-> "returned",
              out |-> merged_bitmap(EnginesOrEmpty(bitmaps, context_height_px))]

\* PrintPreviewRenderEngine / PrintPayloadRenderEngine(...).render(context):
\* the first returns the label's bitmap (preview_show_margins off), the second
\* what MarginsRenderEngine.render returns, the tuple (bitmap, meta)
label_returned(mode, label) ==
    IF label.state = "returned"
    THEN [state |-> "returned",
          out |-> [type |-> IF mode = "print" THEN "tuple" ELSE "Image",
                   width |-> label.bitmap.width, height |-> label.bitmap.height]]
    ELSE [state |-> "raised", error |-> label.state]

label_render(e, rendered) ==
    IF rendered.state = "raised" THEN rendered
    ELSE label_returned(e.mode,
                        margins_render(e, rendered.out.width, rendered.out.height))

\* bitmap = EmptyRenderEngine().render(self.render_context)
empty_render(context_height_px) ==
    [type |-> "Image",
     width |-> EmptyRenderEngine_render(1, context_height_px).width,
     height |-> EmptyRenderEngine_render(1, context_height_px).height]

\* the try of render_preview and of render_print: the bitmap rendered, or the
\* EmptyRenderEngine's for a RenderEngineException; any other exception
\* leaves the handler and nothing is emitted
rendered_or_empty(r, context_height_px) ==
    IF r.state = "returned" THEN [error |-> "none", emitted |-> <<r.out>>]
    ELSE IF r.error \in RenderEngineExceptions
    THEN [error |-> r.error, emitted |-> <<empty_render(context_height_px)>>]
    ELSE [error |-> r.error, emitted |-> <<>>]

NotRun == [error |-> "none", emitted |-> <<>>]

\* DymoPrintWindow.__init__: label_bitmap_to_print = None
NewWindow ==
    [height_px |-> height_px(<<DEFAULT_TAPE_SIZE_MM>>),
     preview |-> NotRun, payload |-> NotRun,
     label_bitmap_to_print |-> <<>>, request |-> "none"]

\* the horizontal margins and minimal label widths tried, in millimetres: the
\* minima of the spin boxes, round(minimum_horizontal_margin_mm) and twice
\* that, and wider ones
GuiMarginsMM == {8, 12}
GuiMinWidthsMM == {16, 40}

\* the engines render_preview and render_print construct
GuiEngine(mode, justify, margin_mm, min_mm) ==
    [mode |-> mode, justify |-> justify,
     visible_horizontal_margin_px |-> mm_to_px(margin_mm),
     labeler_margin_px |-> get_labeler_margin_px,
     max_width_px |-> <<>>,
     min_width_px |-> mm_to_px(min_mm)]

\* render_preview and render_print, each rendering the items anew: what is
\* emitted to update_preview_render and to update_print_render
render_preview(items, c, justify, margin_mm, min_mm) ==
    rendered_or_empty(label_render(GuiEngine("preview", justify, margin_mm, min_mm),
                                   payload_render(items, c.height_px)),
                      c.height_px)

render_print(items, c, justify, margin_mm, min_mm) ==
    rendered_or_empty(label_render(GuiEngine("print", justify, margin_mm, min_mm),
                                   payload_render(items, c.height_px)),
                      c.height_px)

\* render_label: render_preview, and render_print if that returned
both_rendered(c, preview, payload) ==
    [height_px |-> c.height_px, preview |-> preview,
     payload |-> IF preview.emitted = <<>> THEN NotRun ELSE payload]

render_label(items, c, justify, margin_mm, min_mm) ==
    both_rendered(c, render_preview(items, c, justify, margin_mm, min_mm),
                  render_print(items, c, justify, margin_mm, min_mm))

\* the window's render context: the labeler's tape
GuiContext ==
    [tape_size_mm |-> DEFAULT_TAPE_SIZE_MM,
     height_px |-> height_px(<<DEFAULT_TAPE_SIZE_MM>>)]

\* what render_label does, over the item lists and settings tried
RenderedLabels ==
    {render_label(items, GuiContext, justify, margin_mm, min_mm) :
        items \in ItemLists(GuiContext), justify \in Justifies,
        margin_mm \in GuiMarginsMM, min_mm \in GuiMinWidthsMM}

\* render_label, and update_print_render keeping the bitmap emitted
RenderLabel ==
    /\ Idle
    /\ \E r \in RenderedLabels :
          gui' = [height_px |-> r.height_px, preview |-> r.preview,
                  payload |-> r.payload,
                  label_bitmap_to_print |->
                      IF r.payload.emitted = <<>> THEN gui.label_bitmap_to_print
                      ELSE r.payload.emitted,
                  request |-> "none"]
    /\ UNCHANGED <<printVars, renderVars, encoderVars, engineVars, detectVars, sendVars>>

\* print_label with no bitmap kept: the RuntimeError leaves the handler
PrintLabelWithout ==
    /\ Idle
    /\ gui.label_bitmap_to_print = <<>>
    /\ gui' = [gui EXCEPT !.request = "RuntimeError"]
    /\ UNCHANGED <<printVars, renderVars, encoderVars, engineVars, detectVars, sendVars>>

\* print_label: self.dymo_labeler.print(self.label_bitmap_to_print).  Handed
\* the tuple, print ends at bitmap.transpose with an AttributeError, which
\* print_label does not catch; handed an Image it goes on up to the first USB
\* transfer.  The pixels of the bitmap are left blank
PrintLabel ==
    /\ Idle
    /\ gui.label_bitmap_to_print # <<>>
    /\ IF gui.label_bitmap_to_print[1].type = "tuple"
       THEN /\ gui' = [gui EXCEPT !.request = "AttributeError"]
            /\ UNCHANGED printVars
       ELSE LET b == [width |-> gui.label_bitmap_to_print[1].width,
                      height |-> gui.label_bitmap_to_print[1].height,
                      mode |-> "1"]
                stream == [i \in 1..TobytesLen(b) |-> 0]
            IN  /\ bitmap' = b
                /\ io' = <<>>
                /\ disposed' = FALSE
                /\ \/ PrintRejected(b, stream)
                   \/ PrintDetectFails(b, stream)
                   \/ PrintStarts(b, stream)
                /\ gui' = [gui EXCEPT !.request = "print"]
    /\ UNCHANGED <<renderVars, encoderVars, engineVars, detectVars, sendVars>>

Init ==
    /\ pc = "idle"
    /\ result = "none"
    /\ device = 0
    /\ detections = 0
    /\ bitmap = [width |-> 0, height |-> 1, mode |-> "1"]
    /\ fn = NewFunctions(0, <<synwait>>, <<DEFAULT_TAPE_SIZE_MM>>)
    /\ lines = <<>>
    /\ last = TRUE
    /\ chunk = <<>>
    /\ io = <<>>
    /\ subs = <<>>
    /\ detected = FALSE
    /\ disposed = FALSE
    /\ margins = NoRender
    /\ enc = NewFunctions(0, <<>>, <<>>)
    /\ built = <<>>
    /\ leaf = NoCall
    /\ combined = NoCall
    /\ usb = NoCall
    /\ tx = NoCall
    /\ gui = NewWindow

Next ==
    \/ print
    \/ Detect
    \/ StatusWrite
    \/ StatusRead
    \/ ChunkWrite
    \/ FinalRead
    \/ Return

Spec == Init /\ [][Next]_vars

\* the Margins render engine on its own
NextMargins ==
    \/ render
    \/ RenderDone

SpecMargins == Init /\ [][NextMargins]_vars

\* the encoder on its own
NextEncoder ==
    \/ EncStatusRequest
    \/ EncDotTab
    \/ EncTapeColor
    \/ EncBytesPerLine
    \/ EncCut
    \/ EncLine
    \/ EncChainMark
    \/ EncSkipLines
    \/ EncInitLabel
    \/ EncResetCommand
    \/ EncSendCommand

SpecEncoder == Init /\ [][NextEncoder]_vars

\* the horizontal compositor on its own
NextCombined ==
    \/ HorizontallyCombinedRender
    \/ merge_render
    \/ CombinedDone

SpecCombined == Init /\ [][NextCombined]_vars

\* the render engines on their own
NextEngines ==
    \/ TextRender
    \/ BarcodeRender
    \/ BarcodeWithTextRender
    \/ QrRender
    \/ PictureRender
    \/ TestPatternRender
    \/ EmptyRender
    \/ LeafDone

SpecEngines == Init /\ [][NextEngines]_vars

\* device detection on its own
NextDetect ==
    \/ DetectDevice
    \/ DetectDone

SpecDetect == Init /\ [][NextDetect]_vars

\* _send_command on its own
NextSend ==
    \/ SendCommand
    \/ SendPass
    \/ SendEnd
    \/ SendDone

SpecSend == Init /\ [][NextSend]_vars

\* the GUI: its render and print handlers, up to the outcome of the first print
NextGui ==
    \/ RenderLabel
    \/ PrintLabelWithout
    \/ PrintLabel
    \/ StatusWrite
    \/ StatusRead
    \/ ChunkWrite
    \/ FinalRead

SpecGui == Init /\ [][NextGui]_vars

----------------------------------------------------------------------------
(* Reading the histories *)

\* the Line opcodes of the rows lo..hi, one after the other
RECURSIVE LineBytes(_, _, _)
LineBytes(ls, lo, hi) ==
    IF lo > hi THEN <<>>
    ELSE IF lo = hi THEN <<SYN>> \o ls[lo]
    ELSE LET mid == (lo + hi) \div 2
         IN  LineBytes(ls, lo, mid) \o LineBytes(ls, mid + 1, hi)

\* number of SYN bytes in a buffer
SynCount(buf) == Cardinality({i \in 1..Len(buf) : buf[i] = SYN})

\* the USB transfers of the k-th sub-print of the current print call
Transfers(k) ==
    SubSeq(io, subs[k].from + 1, IF k < Len(subs) THEN subs[k + 1].from ELSE Len(io))

\* the send of the k-th sub-print has returned
SendComplete(k) == k < Len(subs) \/ pc = "done"

\* what a transfer was, whether or not it went through
Kind(e) == [op |-> e.op, data |-> e.data, n |-> e.n]

IsPrefix(s, t) == Len(s) <= Len(t) /\ \A i \in 1..Len(s) : s[i] = t[i]

----------------------------------------------------------------------------
(* C1: the opcode stream of one (sub-)print of R >= 1 rows of D bytes is    *)
(* exactly Tape-color ESC 'C' 0, Bytes-per-line ESC 'D' D, the R Line       *)
(* opcodes, Skip-lines only for a margin > 0, and one Status-request        *)
(* ESC 'A'.  print takes no margin, so no Skip-lines is due.                *)
C1_StreamAsClaimed ==
    \A k \in 1..Len(subs) :
        LET ls == subs[k].lines
        IN  Len(ls) >= 1 =>
                subs[k].stream =
                    <<ESC, 67, 0>> \o <<ESC, 68, Len(ls[1])>>
                    \o LineBytes(ls, 1, Len(ls)) \o <<ESC, 65>>

(* C2: a send of a command buffer with fewer than synwait SYN bytes is one  *)
(* status round-trip (write ESC 'A', read 8 bytes), then one bulk write of  *)
(* the whole buffer; the read of the final response follows it.             *)
C2_Expected(k) ==
    <<Kind(Write(0, <<ESC, 65>>, TRUE)), Kind(Read(0, 8, TRUE)),
      Kind(Write(0, subs[k].stream, TRUE)), Kind(Read(0, 8, TRUE))>>

C2_OneRoundTripOneWrite ==
    \A k \in 1..Len(subs) :
        SynCount(subs[k].stream) < synwait =>
            LET t == Transfers(k)
                kinds == [i \in 1..Len(t) |-> Kind(t[i])]
            IN  /\ IsPrefix(kinds, C2_Expected(k))
                /\ SendComplete(k) => Len(t) = 4

C2_Witness ==
    /\ pc = "done"
    /\ Len(subs) = 1
    /\ SynCount(subs[1].stream) \in 1..(synwait - 1)
    /\ Len(io) = 4

(* C3: print_label splits every job of more than maxLines (200) lines into  *)
(* at least two sub-prints, none of more than maxLines lines.               *)
C3_SplitAsClaimed ==
    (pc = "done" /\ bitmap.width > maxLines) =>
        /\ Len(subs) >= 2
        /\ \A k \in 1..Len(subs) : Len(subs[k].lines) <= maxLines

\* the opcodes in the bytes one call added to _cmd: ESC and a letter, with one
\* argument byte after 'B', 'C' and 'D'; SYN and the data of a line, which in
\* a call of _skip_lines is empty and otherwise runs to the end of what the
\* call added; and the lone zero bytes of _init_label
RECURSIVE Decode(_, _)
Decode(bytes, call) ==
    IF bytes = <<>> THEN <<>>
    ELSE IF bytes[1] = ESC THEN
        IF bytes[2] \in {66, 67, 68}
        THEN <<[op |-> bytes[2], arg |-> bytes[3]]>>
                 \o Decode(SubSeq(bytes, 4, Len(bytes)), call)
        ELSE <<[op |-> bytes[2], arg |-> 0]>>
                 \o Decode(SubSeq(bytes, 3, Len(bytes)), call)
    ELSE IF bytes[1] = SYN THEN
        IF call = "skip_lines"
        THEN <<[op |-> SYN, arg |-> 0]>> \o Decode(Tail(bytes), call)
        ELSE <<[op |-> SYN, arg |-> Len(bytes) - 1]>>
    ELSE <<[op |-> bytes[1], arg |-> 0]>> \o Decode(Tail(bytes), call)

\* the opcodes the first n calls on enc built, in their order
RECURSIVE Opcodes(_)
Opcodes(n) ==
    IF n = 0 THEN <<>>
    ELSE Opcodes(n - 1) \o Decode(built[n].bytes, built[n].call)

\* no Dot-tab and no Bytes-per-line among ops[j+1..i-1]
NoneBetween(ops, j, i) == \A m \in (j + 1)..(i - 1) : ops[m].op \notin {66, 68}

C5_RasterCheck ==
    pc # "idle" =>
        LET consistent == CeilDiv8(bitmap.height) * bitmap.width = TobytesLen(bitmap)
        IN  /\ (result = "RuntimeError") <=> ~consistent
            /\ ~consistent => (pc = "raised" /\ io = <<>> /\ subs = <<>>)

C5_Witness ==
    /\ pc = "raised"
    /\ result = "RuntimeError"
    /\ bitmap.width > 0

(* C6: a failed USB read or write is never retried: after the first failed  *)
(* transfer no further transfer is issued for that print, and the print     *)
(* call ends with an error.                                                 *)
C6_NoRetry ==
    \A i \in 1..Len(io) :
        ~io[i].ok =>
            /\ i = Len(io)
            /\ pc = "raised"
            /\ result = "DymoLabelerPrintError"

C6_Witness ==
    /\ Len(io) >= 3
    /\ ~io[Len(io)].ok
    /\ io[Len(io)].op = "read"

(* C7: the device is disposed on every exit path of a print that took      *)
(* hold of it, whether the print succeeds or fails.                         *)
C7_DisposedOnEveryExit ==
    (pc \in {"done", "raised"} /\ fn.devout # 0) => disposed

----------------------------------------------------------------------------
\* n = math.ceil(x) said without Ceil: n is the least int that is >= x
IsCeilOf(n, x) ==
    /\ FGeq(FromInt(n), x)
    /\ IF n = 0 THEN ~FLess(x, FromInt(0)) \/ x.mag[NLimbs] = 0
       ELSE FLess(FromInt(n - 1), x)

\* the render under way got past calculate_visible_width
WidthComputed == margins.state \in {"returned", "AssertionError"}

\* payload_width_px + visible_horizontal_margin_px * 2 of the render under way
MinimalOfRender ==
    FAdd(FromInt(margins.payload.width),
         FMulInt(margins.engine.visible_horizontal_margin_px, 2))

(* C9: whenever no BitmapTooBigError occurs, the label width is the larger  *)
(* of payload_width + 2 * visible_margin (as Python adds them) and          *)
(* min_width, and a bitmap that render returns is ceil(label_width) wide.   *)
C9_LabelWidth ==
    /\ WidthComputed =>
          /\ margins.label_width_px \in {MinimalOfRender, margins.engine.min_width_px}
          /\ FGeq(margins.label_width_px, MinimalOfRender)
          /\ FGeq(margins.label_width_px, margins.engine.min_width_px)
    /\ margins.state = "returned" =>
          IsCeilOf(margins.bitmap.width, margins.label_width_px)

\* a render returned a label as wide as min_width, which is more than the
\* payload and its margins need and not a whole number of pixels
C9_Witness ==
    /\ margins.state = "returned"
    /\ margins.engine.visible_horizontal_margin_px # FromInt(0)
    /\ margins.payload.width > 0
    /\ FLess(MinimalOfRender, margins.engine.min_width_px)
    /\ margins.label_width_px = margins.engine.min_width_px
    /\ HasFrac(margins.label_width_px)
    /\ margins.bitmap.width = margins.label_width_px.mag[NLimbs] + 1

(* C10: for every justify and every admissible payload width, visible       *)
(* margin and min width the computed horizontal_offset_px is at least the   *)
(* visible margin, so that the assert of render never fails.                *)
C10_AssertNeverFails ==
    /\ margins.state # "AssertionError"
    /\ WidthComputed =>
          FGeq(margins.asserted_offset_px, margins.engine.visible_horizontal_margin_px)

----------------------------------------------------------------------------
\* the render under way is the one with a visible margin of 10, a labeler
\* margin of (6, 2), no minimum, a payload 100 wide and justify center
IsScenario ==
    /\ margins.state # "none"
    /\ margins.engine.visible_horizontal_margin_px = FromInt(10)
    /\ margins.engine.labeler_margin_px = <<FromInt(6), FromInt(2)>>
    /\ margins.engine.min_width_px = FromInt(0)
    /\ margins.engine.justify = "center"
    /\ margins.payload.width = 100

(* C11: in print mode render returns horizontal_offset_px = the justify     *)
(* offset less the labeler's horizontal margin, vertical_offset_px = 0 and  *)
(* a bitmap as high as the payload; a visible margin of 10, a labeler       *)
(* margin of (6, 2), a payload 100 wide, justify center and no minimum give *)
(* a label width of 120 and a horizontal offset of 4.                       *)
C11_PrintMode ==
    (margins.state = "returned" /\ margins.engine.mode = "print") =>
        /\ margins.meta.horizontal_offset_px =
              FSub(margins.asserted_offset_px, margins.engine.labeler_margin_px[1])
        /\ margins.meta.vertical_offset_px = FromInt(0)
        /\ margins.bitmap.height = margins.payload.height
        /\ IsScenario =>
              /\ margins.label_width_px = FromInt(120)
              /\ margins.meta.horizontal_offset_px = FromInt(4)

\* the render of the scenario returned in print mode
C11_Witness ==
    /\ IsScenario
    /\ margins.state = "returned"
    /\ margins.engine.mode = "print"
    /\ margins.meta.horizontal_offset_px = FromInt(4)
    /\ margins.bitmap = [width |-> 120, height |-> margins.payload.height]

\* the render under way returned in preview mode
PreviewReturned == margins.state = "returned" /\ margins.engine.mode = "preview"

\* payload height + 2 * the labeler's vertical margin, of the render under way
PreviewHeight ==
    FAdd(FromInt(margins.payload.height),
         FMulInt(margins.engine.labeler_margin_px[2], 2))

(* C12, as claimed: in preview mode the bitmap is payload height + 2 * the  *)
(* labeler's vertical margin high, vertical_offset_px is that margin and    *)
(* horizontal_offset_px is the justify offset.                              *)
C12_PreviewAsClaimed ==
    PreviewReturned =>
        /\ FromInt(margins.bitmap.height) = PreviewHeight
        /\ margins.meta.vertical_offset_px = margins.engine.labeler_margin_px[2]
        /\ margins.meta.horizontal_offset_px = margins.asserted_offset_px

(* C12, amended: in preview mode the bitmap is math.ceil(payload height +   *)
(* 2 * the labeler's vertical margin) high, which is that sum when the      *)
(* margin is a whole number of pixels; vertical_offset_px is the margin and *)
(* horizontal_offset_px is the justify offset.                              *)
C12_PreviewMode ==
    PreviewReturned =>
        /\ IsCeilOf(margins.bitmap.height, PreviewHeight)
        /\ ~HasFrac(margins.engine.labeler_margin_px[2]) =>
              FromInt(margins.bitmap.height) = PreviewHeight
        /\ margins.meta.vertical_offset_px = margins.engine.labeler_margin_px[2]
        /\ margins.meta.horizontal_offset_px = margins.asserted_offset_px

\* a preview with the labeler's margins of 8.1 mm and 1.9 mm: the bitmap is
\* higher than the payload and its two margins
C12_Witness ==
    /\ PreviewReturned
    /\ margins.engine.labeler_margin_px = get_labeler_margin_px
    /\ FLess(PreviewHeight, FromInt(margins.bitmap.height))
    /\ margins.meta.vertical_offset_px = get_labeler_margin_px[2]

(* C13: render fails with BitmapTooBigError exactly when max_width_px is    *)
(* set and payload_width + 2 * visible_margin exceeds it; then it returns   *)
(* no bitmap and no offsets, and in every other case there is no size       *)
(* error.                                                                   *)
C13_TooBigExactly ==
    margins.state # "none" =>
        /\ margins.state = "BitmapTooBigError" <=>
              /\ margins.engine.max_width_px # <<>>
              /\ FLess(margins.engine.max_width_px[1], MinimalOfRender)
        /\ margins.state = "BitmapTooBigError" =>
              DOMAIN margins \cap {"bitmap", "box", "meta"} = {}

\* a payload of 100 with margins of 10 under a maximum of 110 is refused
C13_Witness ==
    /\ margins.state = "BitmapTooBigError"
    /\ margins.engine.max_width_px = <<FromInt(110)>>
    /\ margins.payload.width = 100

(***************************************************************************)
(* The horizontal compositor                                               *)
(***************************************************************************)
CombinedReturned == combined # NoCall /\ combined.state = "returned"

EqualHeights(bitmaps) ==
    \A i \in 1..Len(bitmaps) : bitmaps[i].height = bitmaps[1].height

\* sum(w_i) + PADDING*(N-1), which is w_1 for N = 1
ClaimedWidth(bitmaps) == SumWidths(bitmaps) + 4 * (Len(bitmaps) - 1)

Larger(a, b) == IF a > b THEN a ELSE b

(***************************************************************************)
(* C14 as stated: for any list of N >= 1 bitmaps of equal height h and     *)
(* widths w_1..w_N the compositor's output has height h and width          *)
(* sum(w_i) + 4*(N-1), and for N = 1 it is the single bitmap itself.       *)
(***************************************************************************)
C14_OutputAsClaimed ==
    (CombinedReturned /\ Len(combined.call.bitmaps) >= 1
        /\ EqualHeights(combined.call.bitmaps))
    => LET bs == combined.call.bitmaps
       IN  /\ combined.out.height = bs[1].height
           /\ combined.out.width = ClaimedWidth(bs)
           /\ Len(bs) = 1 => combined.out = bs[1]

(***************************************************************************)
(* C14: for any list of N >= 1 bitmaps of equal height h, with             *)
(* W = sum(w_i) + 4*(N-1), the compositor fails exactly when               *)
(* max_payload_len_px is set and W exceeds it, and otherwise returns a     *)
(* bitmap of height h and width max(W, min_payload_len_px): the merged     *)
(* bitmap itself (for N = 1 the single bitmap) when min_payload_len_px     *)
(* <= W, and else a blank canvas of width min_payload_len_px with the      *)
(* merged W x h bitmap pasted on it.                                       *)
(***************************************************************************)
C14_OutputWidth ==
    (combined # NoCall /\ Len(combined.call.bitmaps) >= 1
        /\ EqualHeights(combined.call.bitmaps))
    => LET bs == combined.call.bitmaps
           W == ClaimedWidth(bs)
           min == combined.call.min_payload_len_px
           max == combined.call.max_payload_len_px
       IN  /\ combined.state = "raised" <=> (max # <<>> /\ W > max[1])
           /\ combined.state = "returned" =>
                /\ combined.out.height = bs[1].height
                /\ combined.out.width = Larger(W, min)
                /\ (min <= W /\ Len(bs) = 1) => combined.out = bs[1]
                /\ (min <= W /\ Len(bs) > 1) =>
                      /\ Len(combined.out.parts) = Len(bs)
                      /\ \A i \in 1..Len(bs) :
                            /\ combined.out.parts[i].width = bs[i].width
                            /\ combined.out.parts[i].y = 0
                            /\ combined.out.parts[i].x =
                                 SumWidths(SubSeq(bs, 1, i - 1)) + 4 * (i - 1)
                /\ min > W =>
                      /\ Len(combined.out.parts) = 1
                      /\ combined.out.parts[1].width = W
                      /\ combined.out.parts[1].height = bs[1].height
                      /\ combined.out.parts[1].y = 0

\* three bitmaps of one height are merged, by either compositor
C14_Witness ==
    /\ CombinedReturned
    /\ Len(combined.call.bitmaps) = 3
    /\ EqualHeights(combined.call.bitmaps)
    /\ combined.call.min_payload_len_px > 0
    /\ combined.out.width = SumWidths(combined.call.bitmaps) + 8

(***************************************************************************)
(* C15 as stated: with zero engines the compositor returns an all-blank    *)
(* bitmap of the context's height whose width is min_payload_len_px.       *)
(***************************************************************************)
C15_EmptyAsClaimed ==
    (CombinedReturned /\ combined.call.bitmaps = <<>>)
    => /\ ~combined.out.ink
       /\ combined.out.height = combined.call.height_px
       /\ combined.out.width = combined.call.min_payload_len_px

(***************************************************************************)
(* C15: with zero engines the compositor never fails for lack of content:  *)
(* it returns an all-blank bitmap of the context's height whose width is   *)
(* max(min_payload_len_px, 1), unless max_payload_len_px is set and        *)
(* smaller than the Empty bitmap it starts from (1 pixel wide in render,   *)
(* max(min_payload_len, 1) wide in merge_render), and then it fails with   *)
(* the size-exceeded error.                                                *)
(***************************************************************************)
C15_EmptyFallback ==
    (combined # NoCall /\ combined.call.bitmaps = <<>>)
    => LET min == combined.call.min_payload_len_px
           max == combined.call.max_payload_len_px
           start == IF combined.call.impl = "render" THEN 1 ELSE Larger(min, 1)
       IN  /\ combined.state = "raised" <=> (max # <<>> /\ start > max[1])
           /\ combined.state = "raised" =>
                combined.error \in {"BitmapTooBigError", "die"}
           /\ combined.state = "returned" =>
                /\ ~combined.out.ink
                /\ combined.out.height = combined.call.height_px
                /\ combined.out.width = Larger(min, 1)

\* no engine, a minimum of 20 pixels: a blank 20-pixel bitmap comes back
C15_Witness ==
    /\ CombinedReturned
    /\ combined.call.impl = "render"
    /\ combined.call.bitmaps = <<>>
    /\ combined.call.min_payload_len_px = 20
    /\ combined.out.width = 20
    /\ ~combined.out.ink

(***************************************************************************)
(* The render engines                                                      *)
(***************************************************************************)
LeafIsReturned == leaf # NoCall /\ leaf.state = "returned"

(***************************************************************************)
(* C16 as stated: every render engine variant returns, for every           *)
(* RenderContext and every parameter value, a bitmap whose height is       *)
(* exactly context.height_px.                                              *)
(***************************************************************************)
C16_HeightIsContextHeight ==
    LeafIsReturned => leaf.out.height = leaf.call.height_px

\* 6 -> 4, 9 -> 6, 12 -> 8, 19 -> 12
ClaimedBytesPerLine(t) ==
    CASE t = 6 -> 4 [] t = 9 -> 6 [] t = 12 -> 8 [] t = 19 -> 12

(***************************************************************************)
(* C17: max_bytes_per_line(tape_mm) = floor(8 * tape_mm / 12) for every    *)
(* supported tape size, 6 -> 4, 9 -> 6, 12 -> 8, 19 -> 12, and the raster  *)
(* height in pixels, which every render context carries, is 8 times that   *)
(* value.                                                                  *)
(***************************************************************************)
C17_BytesPerLine ==
    /\ \A t \in TapeSizes :
          LET m == max_bytes_per_line(<<t>>)
          IN  /\ m = ClaimedBytesPerLine(t)
              /\ 12 * m <= 8 * t /\ 8 * t < 12 * (m + 1)
              /\ height_px(<<t>>) = 8 * m
    /\ leaf # NoCall =>
          leaf.call.height_px = 8 * ClaimedBytesPerLine(leaf.call.tape_size_mm)

\* an engine has rendered for the 19 mm tape, 96 pixels high
C17_Witness ==
    /\ LeafIsReturned
    /\ leaf.engine = "Empty"
    /\ leaf.call.tape_size_mm = 19
    /\ leaf.call.height_px = 96
    /\ leaf.out.height = 96

(***************************************************************************)
(* C18: the QR engine raises NoContentError for empty content and          *)
(* QrTooBigError whenever height_px // module_count = 0, module_count      *)
(* being the rows of the matrix with its quiet zone (for the supported     *)
(* tapes the quotient by the rows without the quiet zone is 0 for the same *)
(* codes); it returns no bitmap in either case, and whenever it returns a  *)
(* bitmap the scale is >= 1.                                               *)
(***************************************************************************)
C18_QrErrors ==
    (leaf # NoCall /\ leaf.engine = "Qr")
    => LET h == leaf.call.height_px
           module_count == leaf.call.lines
       IN  /\ leaf.call.content = 0 =>
                 leaf.state = "raised" /\ leaf.error = "NoContentError"
           /\ (leaf.call.content # 0 /\ h \div module_count = 0) =>
                 leaf.state = "raised" /\ leaf.error = "QrTooBigError"
           /\ leaf.call.content # 0 =>
                 ((h \div module_count = 0) <=> (h \div (module_count - 2) = 0))
           /\ leaf.state = "returned" =>
                 /\ leaf.call.content # 0
                 /\ leaf.qr_scale >= 1
                 /\ leaf.qr_scale = h \div module_count
                 /\ leaf.out.width = module_count * leaf.qr_scale

\* a code of more rows than the 12 mm tape has pixels is refused
C18_Witness ==
    /\ leaf # NoCall
    /\ leaf.engine = "Qr"
    /\ leaf.call.tape_size_mm = 12
    /\ leaf.call.lines > 64
    /\ leaf.state = "raised"
    /\ leaf.error = "QrTooBigError"

(***************************************************************************)
(* Device detection                                                        *)
(***************************************************************************)
DetectReturned == usb # NoCall /\ usb.state = "returned"

\* the places of the bus whose device has the vendor id
VendorMatches(bus) == {i \in 1..Len(bus) : bus[i].idVendor = 2338}

(***************************************************************************)
(* C19: device detection fails when no USB device matches the vendor id,   *)
(* and when it returns a device it is the first one of the enumeration     *)
(* that matches, however many match: the choice is a function of the       *)
(* enumeration order.                                                      *)
(***************************************************************************)
C19_FirstOfEnumeration ==
    usb # NoCall =>
       LET matches == VendorMatches(usb.seen.bus)
       IN  /\ matches = {} =>
                usb.state = "raised" /\ usb.error = "DeviceDetectionError"
           /\ usb.state = "returned" =>
                /\ usb.out.dev \in matches
                /\ \A i \in matches : usb.out.dev <= i
                /\ usb.out.id = usb.seen.bus[usb.out.dev].idProduct

\* two Dymo devices of different products: the first is returned
C19_Witness ==
    /\ DetectReturned
    /\ Cardinality(VendorMatches(usb.seen.bus)) = 2
    /\ usb.seen.bus[1].idProduct # usb.seen.bus[2].idProduct
    /\ usb.out.dev = 1

\* the places of the interfaces of a class
OfClass(intfs, class) == {i \in 1..Len(intfs) : intfs[i] = class}

(***************************************************************************)
(* C20: once the device is configured, detection selects the printer-class *)
(* interface (class 7) whenever the active configuration has one, selects  *)
(* the HID-class interface (class 3) only when there is no printer-class   *)
(* interface, and fails, returning no device, when neither class is        *)
(* present.                                                                *)
(***************************************************************************)
C20_PrinterBeforeHid ==
    (usb # NoCall /\ "intfs" \in DOMAIN usb.seen) =>
       LET intfs == usb.seen.intfs
           printers == OfClass(intfs, 7)
           hids == OfClass(intfs, 3)
       IN  /\ (printers = {} /\ hids = {}) =>
                usb.state = "raised" /\ usb.error = "SystemExit"
           /\ usb.state = "returned" =>
                /\ printers # {} =>
                     usb.out.intf \in printers
                        /\ \A i \in printers : usb.out.intf <= i
                /\ printers = {} =>
                     usb.out.intf \in hids /\ \A i \in hids : usb.out.intf <= i
                /\ usb.out.intf \in hids => printers = {}

\* a HID interface comes before the printer interface: the printer one is opened
C20_Witness ==
    /\ DetectReturned
    /\ usb.seen.intfs = <<3, 7>>
    /\ usb.out.intf = 2

\* the places of the endpoints of a direction
OfDirection(eps, dir) == {i \in 1..Len(eps) : eps[i].dir = dir}

(***************************************************************************)
(* C21 as stated: device detection returns a DetectedDevice only if both a *)
(* bulk IN and a bulk OUT endpoint were resolved on the selected           *)
(* interface.                                                              *)
(***************************************************************************)
C21_BulkAsClaimed ==
    DetectReturned =>
       /\ usb.seen.eps[usb.out.devout] = [dir |-> "out", type |-> "bulk"]
       /\ usb.seen.eps[usb.out.devin] = [dir |-> "in", type |-> "bulk"]

(***************************************************************************)
(* C21: device detection returns a DetectedDevice only if both an IN and   *)
(* an OUT endpoint were resolved on the selected interface, each the first *)
(* endpoint of its direction whatever its transfer type (bulk or           *)
(* interrupt); if the interface has no endpoint of either direction,       *)
(* detection fails and no DetectedDevice is returned.                      *)
(***************************************************************************)
C21_EndpointsByDirection ==
    /\ DetectReturned => "eps" \in DOMAIN usb.seen
    /\ (usb # NoCall /\ "eps" \in DOMAIN usb.seen) =>
          LET outs == OfDirection(usb.seen.eps, "out")
              ins == OfDirection(usb.seen.eps, "in")
          IN  /\ (outs = {} \/ ins = {}) =>
                   usb.state = "raised" /\ usb.error = "SystemExit"
              /\ usb.state = "returned" =>
                   /\ usb.out.devout \in outs
                   /\ \A i \in outs : usb.out.devout <= i
                   /\ usb.out.devin \in ins
                   /\ \A i \in ins : usb.out.devin <= i

\* a device is returned whose endpoints are interrupt endpoints
C21_Witness ==
    /\ DetectReturned
    /\ usb.seen.eps[usb.out.devout].type = "interrupt"
    /\ usb.seen.eps[usb.out.devin].type = "interrupt"
    /\ usb.out.devout = 2
    /\ usb.out.devin = 1

(***************************************************************************)
(* The send loop                                                           *)
(***************************************************************************)
Sending == tx # NoCall /\ tx.buffer # <<>>

Paced == Sending /\ tx.f.synwait # <<>>

\* the place (from 1) of the k-th SYN byte of buf, 0 when it has fewer
NthSyn(buf, k) ==
    LET syns == {i \in 1..Len(buf) : buf[i] = SYN}
    IN  IF Cardinality(syns) < k THEN 0
        ELSE CHOOSE p \in syns : Cardinality({q \in syns : q <= p}) = k

\* the prefix of buf up to the place of its k-th SYN byte, all of it when it
\* has fewer
UpToNthSyn(buf, k) ==
    IF NthSyn(buf, k) = 0 THEN buf ELSE SubSeq(buf, 1, NthSyn(buf, k) - 1)

\* n repetitions of (write Status-request; read 8 bytes; write one burst)
RECURSIVE ClaimedRounds(_, _, _, _)
ClaimedRounds(rest, k, n, ep) ==
    IF n = 0 THEN <<>>
    ELSE LET burst == UpToNthSyn(rest, k)
         IN  <<Write(ep, <<ESC, 65>>, TRUE), Read(ep, 8, TRUE), Write(ep, burst, TRUE)>>
                \o ClaimedRounds(SubSeq(rest, Len(burst) + 1, Len(rest)), k, n - 1, ep)

\* the transfers without their outcome
Attempted(events) ==
    [i \in 1..Len(events) |-> [events[i] EXCEPT !.ok = TRUE]]

(***************************************************************************)
(* C24: with synwait set, the USB transfers of one send of a non-empty     *)
(* buffer are a repetition of (write Status-request ESC 'A'; read 8 bytes; *)
(* write one burst), each burst being the prefix of the remaining buffer   *)
(* up to the place of its synwait-th SYN byte (the whole remainder when    *)
(* fewer remain), followed by exactly one more read of 8 bytes if and only *)
(* if a final response is expected, and the response-expected flag is      *)
(* cleared afterwards; a send that a USB error ends has made a prefix of    *)
(* these transfers.                                                        *)
(***************************************************************************)
C24_PacedTrace ==
    Paced =>
       LET k == tx.f.synwait[1]
           ep == tx.f.devout
           rounds == ClaimedRounds(tx.buffer, k, tx.passes, ep)
           final == IF tx.expected THEN <<Read(ep, 8, TRUE)>> ELSE <<>>
       IN  /\ tx.state = "loop" => tx.io = rounds
           /\ tx.state = "returned" =>
                 /\ tx.io = rounds \o final
                 /\ tx.f.cmd = <<>>
                 /\ ~tx.f.response
           /\ tx.state = "raised" =>
                 /\ tx.io # <<>>
                 /\ ~tx.io[Len(tx.io)].ok
                 /\ \A i \in 1..(Len(tx.io) - 1) : tx.io[i].ok
                 /\ \/ IsPrefix(Attempted(tx.io),
                                ClaimedRounds(tx.buffer, k, tx.passes + 1, ep))
                    \/ /\ tx.expected
                       /\ tx.f.cmd = <<>>
                       /\ Attempted(tx.io) = rounds \o final

\* a send in three bursts whose final response is read
C24_Witness ==
    /\ Paced
    /\ tx.state = "returned"
    /\ tx.expected
    /\ tx.passes = 3
    /\ Len(tx.io) = 10
    /\ \A i \in {3, 6, 9} : tx.io[i].data # <<>>

\* the bursts handed to the OUT endpoint so far, in write order: with synwait
\* set every third transfer, the others being the pacing Status-request and
\* its reply, and without it every write
Bursts(t) ==
    IF t.f.synwait # <<>>
    THEN [i \in 1..(Len(t.io) \div 3) |-> t.io[3 * i].data]
    ELSE [i \in 1..Len(t.io) |-> t.io[i].data]

RECURSIVE Concat(_)
Concat(seqs) == IF seqs = <<>> THEN <<>> ELSE seqs[1] \o Concat(Tail(seqs))

\* what is left of the buffer after the first n bursts
Remaining(t, n) ==
    SubSeq(t.buffer, Len(Concat(SubSeq(Bursts(t), 1, n))) + 1, Len(t.buffer))

(***************************************************************************)
(* C25 as stated: for every non-empty command buffer and every             *)
(* synwait >= 1, each iteration of the send loop writes a non-empty burst  *)
(* and strictly shortens the remaining buffer (so that the loop            *)
(* terminates).                                                            *)
(***************************************************************************)
C25_EveryBurstShortens ==
    Paced =>
       \A n \in 1..Len(Bursts(tx)) :
          /\ Bursts(tx)[n] # <<>>
          /\ Len(Remaining(tx, n)) < Len(Remaining(tx, n - 1))

(***************************************************************************)
(* C26: the chunker neither loses, duplicates nor reorders bytes: for      *)
(* every command buffer and synwait, when a send completes without error   *)
(* the concatenation, in write order, of all the data bursts written to    *)
(* the OUT endpoint (the interleaved pacing Status-requests left out)      *)
(* equals the original command buffer, and the buffer is empty afterwards. *)
(***************************************************************************)
C26_BurstsAreTheBuffer ==
    (tx # NoCall /\ tx.state = "returned") =>
       /\ Concat(Bursts(tx)) = tx.buffer
       /\ tx.f.cmd = <<>>
       /\ \A i \in 1..Len(tx.io) : tx.io[i].ok

\* a send in three bursts, the middle one starting with a SYN, has completed
C26_Witness ==
    /\ Paced
    /\ tx.state = "returned"
    /\ Len(Bursts(tx)) = 3
    /\ Bursts(tx)[2] # <<>>
    /\ Bursts(tx)[2][1] = SYN
    /\ Len(tx.buffer) > Len(Bursts(tx)[1]) + Len(Bursts(tx)[2])

\* the places (from 1) of buf where an opcode starts: ESC and a letter, with
\* one argument byte after 'B', 'C' and 'D'; SYN and the bytes of a line, as
\* many as the last Bytes-per-line ESC 'D' said
ParseOpcode(buf, st) ==
    LET i == st.i
        at == [st EXCEPT !.starts = Append(@, i)]
    IN  IF buf[i] = ESC /\ i < Len(buf) THEN
            IF buf[i + 1] \in {66, 67, 68} /\ i + 1 < Len(buf)
            THEN [at EXCEPT !.i = i + 3,
                            !.bpl = IF buf[i + 1] = 68 THEN buf[i + 2] ELSE @]
            ELSE [at EXCEPT !.i = i + 2]
        ELSE IF buf[i] = SYN
        THEN [at EXCEPT !.i = i + 1 + st.bpl,
                        !.rows = Append(@, SubSeq(buf, i + 1, i + st.bpl))]
        ELSE [at EXCEPT !.i = i + 1]

\* the next n opcodes
RECURSIVE ParseSome(_, _, _)
ParseSome(buf, st, n) ==
    IF n = 0 \/ st.i > Len(buf) THEN st
    ELSE ParseSome(buf, ParseOpcode(buf, st), n - 1)

RECURSIVE ParseAll(_, _)
ParseAll(buf, st) ==
    IF st.i > Len(buf) THEN st ELSE ParseAll(buf, ParseSome(buf, st, 16))

\* the opcodes of buf, bpl being the Bytes-per-line value in force where it
\* starts: the places where they start and the rows of the Line opcodes
Parsed(buf, bpl) ==
    ParseAll(buf, [i |-> 1, bpl |-> bpl, starts |-> <<>>, rows |-> <<>>])

OpcodeStarts(buf, bpl) ==
    LET found == Parsed(buf, bpl).starts
    IN  {found[n] : n \in 1..Len(found)}

\* the places where a Line or a Skip-line opcode starts
LineStarts(buf) == {i \in OpcodeStarts(buf, 0) : buf[i] = SYN}

(***************************************************************************)
(* C28 as stated: every burst boundary chosen by the chunker falls on an   *)
(* opcode boundary: for every raster content (rows whose data bytes equal  *)
(* 0x16 included), a non-final burst ends immediately before the SYN that  *)
(* starts a Line or Skip-line opcode, never in the middle of a Line's data *)
(* bytes, and a burst contains at most synwait line starts.                *)
(***************************************************************************)
C28_BurstsEndAtLineStarts ==
    Paced =>
       \A n \in 1..Len(Bursts(tx)) :
          LET from == Len(tx.buffer) - Len(Remaining(tx, n - 1))
              to == Len(tx.buffer) - Len(Remaining(tx, n))
          IN  /\ to < Len(tx.buffer) => (to + 1) \in LineStarts(tx.buffer)
              /\ Cardinality({i \in LineStarts(tx.buffer) : from < i /\ i <= to})
                    <= tx.f.synwait[1]

(***************************************************************************)
(* The whole print job                                                     *)
(***************************************************************************)
\* the Bytes-per-line value in force where the stream of the k-th sub-print
\* starts: from the second sub-print on, that of the first
InForce(k) == IF k = 1 \/ subs[1].lines = <<>> THEN 0 ELSE Len(subs[1].lines[1])

\* the Status-request opcodes in the stream of the k-th sub-print
StatusOpcodes(k) ==
    LET buf == subs[k].stream
    IN  Cardinality({i \in OpcodeStarts(buf, InForce(k)) :
                        buf[i] = ESC /\ i < Len(buf) /\ buf[i + 1] = 65})

RECURSIVE SumTo(_, _)
SumTo(F(_), n) == IF n = 0 THEN 0 ELSE SumTo(F, n - 1) + F(n)

\* the Status-requests written to the OUT endpoint: those of the streams and
\* the pacing ones, which are the writes of ESC 'A' alone
StatusRequestsWritten ==
    SumTo(StatusOpcodes, Len(subs))
       + Cardinality({i \in 1..Len(io) : io[i].op = "write" /\ io[i].data = <<ESC, 65>>})

ReadsMade == Cardinality({i \in 1..Len(io) : io[i].op = "read"})

(***************************************************************************)
(* C27 as stated: over a complete print job, status requests and replies   *)
(* are paired one to one: the number of 8-byte reads from the IN endpoint  *)
(* equals the number of Status-request opcodes (ESC 'A') written to the    *)
(* OUT endpoint.                                                           *)
(***************************************************************************)
C27_RepliesPaired ==
    pc = "done" => ReadsMade = StatusRequestsWritten

\* the rows print_label has handed or still has to hand to _raw_print_label:
\* those of the sub-prints before the current one, then its list of lines
RowsOfJob ==
    Concat([k \in 1..(Len(subs) - 1) |-> subs[k].lines]) \o lines

\* the rows the k-th sub-print emits
EmittedRows(k) == Parsed(subs[k].stream, InForce(k)).rows

(***************************************************************************)
(* C29 as stated: for every list of lines, every sub-print of print_label  *)
(* carries at least one row.                                               *)
(***************************************************************************)
C29_EverySubPrintHasARow ==
    \A k \in 1..Len(subs) : Len(EmittedRows(k)) >= 1

(***************************************************************************)
(* C29: splitting a long job preserves the raster: for every list of       *)
(* lines, the Line rows emitted by print_label's successive sub-prints,    *)
(* concatenated in order, are exactly the original rows, each once and in  *)
(* the original order, and every sub-print carries at least one row,       *)
(* except that an empty list makes one sub-print that carries none.        *)
(***************************************************************************)
C29_RasterPreserved ==
    /\ [][(pc # "idle" /\ pc' # "idle") => RowsOfJob' = RowsOfJob]_vars
    /\ [](pc # "idle" /\ subs # <<>> =>
             /\ \A k \in 1..Len(subs) : EmittedRows(k) = subs[k].lines
             /\ \A k \in 1..Len(subs) :
                   \/ Len(EmittedRows(k)) >= 1
                   \/ Len(subs) = 1 /\ RowsOfJob = <<>>
             /\ pc = "done" =>
                   /\ lines = subs[Len(subs)].lines
                   /\ Len(RowsOfJob) = bitmap.width)

\* a job of three sub-prints is done
C29_Witness ==
    /\ pc = "done"
    /\ Len(subs) = 3
    /\ Len(RowsOfJob) = 2 * maxLines + 2
    /\ RowsOfJob[1] # RowsOfJob[2]

(***************************************************************************)
(* C30 as stated: in print mode the Margins Engine never crops the         *)
(* payload: for every justify, visible margin >= 0, labeler margin >= 0    *)
(* and min width >= 0, the payload is pasted wholly inside the canvas,     *)
(* i.e. round(horizontal_offset_px) >= 0 and                               *)
(* round(horizontal_offset_px) + payload_width <= ceil(label_width).       *)
(***************************************************************************)
C30_NeverCrops ==
    (margins.state = "returned" /\ margins.engine.mode = "print") =>
       /\ margins.box[1] >= 0
       /\ margins.box[1] + margins.payload.width <= margins.bitmap.width

(***************************************************************************)
(* The GUI                                                                 *)
(***************************************************************************)
\* the content errors: empty QR or picture content, a QR code too big for
\* the tape, a failure of the barcode library (in its generator or its
\* render)
ContentErrors ==
    {"NoContentError", "NoPictureFilePath", "QrTooBigError",
     "BarcodeRenderError", "generator"}

(***************************************************************************)
(* C22 as stated: preview rendering always produces a bitmap: whenever any *)
(* render engine in the preview pipeline fails with a content-render       *)
(* error, render_preview still emits exactly one preview bitmap, namely    *)
(* the Empty engine's blank bitmap of the context height.                  *)
(***************************************************************************)
C22_PreviewFallsBackToEmpty ==
    gui.preview.error \in ContentErrors =>
       gui.preview.emitted = <<empty_render(gui.height_px)>>

(***************************************************************************)
(* C23 as stated: print-facing code aborts the whole print when the        *)
(* payload cannot be rendered: after a content-render failure of the print *)
(* payload, a subsequent print request sends no opcode stream to the       *)
(* device (neither a partial one nor one built from a substitute bitmap).  *)
(***************************************************************************)
C23_FailedPayloadNotSent ==
    (gui.payload.error \in ContentErrors /\ gui.request = "print") =>
       \A i \in 1..Len(io) : io[i].op # "write"

====
